---- MODULE Spec2Model ----
(***************************************************************************)
(* A model of the post-processing of LLM-generated knowledge graphs and    *)
(* ontologies (src/src/kg_generation/postprocess.py):                      *)
(*   clean_graph             - merge of the graph batches (SpecMerge)      *)
(*   remove_duplicates_in_kg - node deduplication         (SpecDedupe)     *)
(*   clean_ontology          - merge of the ontology batches (SpecOnto),   *)
(*                             its embedding files        (SpecCache)      *)
(*   _replace_nonchar        - entity names               (SpecName)       *)
(* of the structural metrics (src/src/evaluation/structural_evaluation.py) *)
(* as run_structural_evaluation calls them                (SpecEval)       *)
(* and of generate_triples on the merged graph            (SpecTriples).   *)
(* SpecFragment is clean_graph on batches that may lack a key, SpecTyped   *)
(* remove_duplicates_in_kg on property values of any JSON type, SpecLoaded *)
(* clean_ontology with a loaded embedding file, SpecCollect and SpecPath   *)
(* single calls of get_entities_onto and _get_nsups.                       *)
(* Strings that the code parses or formats (node ids, entity names,        *)
(* descriptions) are sequences of one-character strings, so that           *)
(* str.isdigit, int, str, str.lower, ... are computed and not assumed.     *)
(***************************************************************************)
EXTENDS Integers, Sequences, FiniteSets, Bags, TLC

VARIABLES
    kg_batches,      \* clean_graph: the batch file as read by read_batch_json
    batch_i,         \* clean_graph: number of batches folded so far
    new_node_list,   \* clean_graph: the accumulated node list
    new_rel_list,    \* clean_graph: the accumulated relationship list
    merge_pc,        \* clean_graph: "loop", "written" or "error"
    merged_file,     \* clean_graph: the content written to outfile
    kg_file,         \* remove_duplicates_in_kg: the graph file (kg_file = outfile)
    kg_input,        \* history: the graph file before the first run
    kg_prev,         \* history: the graph file before the latest run
    dedupe_runs,     \* remove_duplicates_in_kg: number of completed runs
    dedupe_pc,       \* remove_duplicates_in_kg: "ready" or "error"
    tmp_ontology,    \* clean_ontology: the batch ontologies, in file order
    onto_i,          \* clean_ontology: the batch the outer loop is at
    entity_i,        \* clean_ontology: entities of that batch already handled
    relation_i,      \* clean_ontology: relationships of that batch already handled
    entities,        \* clean_ontology: the list entities
    relations,       \* clean_ontology: the dict relations, type -> records
    descr_embedding_mapping,  \* clean_ontology: description -> embedding
    sub_rel_counter, \* clean_ontology: number of records stored
    onto_pc,         \* clean_ontology: "loop", "written" or "error"
    ontology_file,   \* clean_ontology: the content written to output_file
    name_arg,        \* _replace_nonchar: the argument s
    name_result,     \* _replace_nonchar: the returned string
    name_pc,         \* _replace_nonchar: "called" or "returned"
    embedding_file,  \* embedding cache: the file EMBEDDING_PATH + model, or Absent
    turbo_file,      \* embedding cache: the file named at line 36, or Absent
    cache_mapping,   \* embedding cache: descr_embedding_mapping of the run
    cache_todo,      \* embedding cache: descriptions the run has still to meet
    cache_requested, \* history: descriptions the run has requested embeddings for
    cache_obtained,  \* history: descriptions requested by earlier completed runs
    cache_runs,      \* embedding cache: number of the run
    cache_pc,        \* embedding cache: position of the run
    eval_ontology,   \* run_structural_evaluation: the ontology read at line 49
    eval_graph,      \* run_structural_evaluation: the graph read at line 51
    eval_results,    \* run_structural_evaluation: the metrics computed so far
    eval_pc,         \* run_structural_evaluation: the next statement, or the end
    eval_outfile,    \* run_structural_evaluation: the rows written to outfile
    triples_include_properties, \* generate_triples: the argument of the call
    triples_returned, \* generate_triples: the list `triples` the call returned
    triples_pc,      \* generate_triples: not called, returned, or the exception
    fn_entity,       \* a call of _get_nsups: its argument entity
    fn_result,       \* a call of get_entities_onto or _get_nsups: what it returned
    fn_pc            \* a call of get_entities_onto or _get_nsups: its position

merge_vars == <<kg_batches, batch_i, new_node_list, new_rel_list, merge_pc, merged_file>>

dedupe_vars == <<kg_file, kg_input, kg_prev, dedupe_runs, dedupe_pc>>

onto_vars == <<tmp_ontology, onto_i, entity_i, relation_i, entities, relations,
               descr_embedding_mapping, sub_rel_counter, onto_pc, ontology_file>>

name_vars == <<name_arg, name_result, name_pc>>

cache_vars == <<embedding_file, turbo_file, cache_mapping, cache_todo, cache_requested,
                cache_obtained, cache_runs, cache_pc>>

eval_vars == <<eval_ontology, eval_graph, eval_results, eval_pc, eval_outfile>>

triples_vars == <<triples_include_properties, triples_returned, triples_pc>>

fn_vars == <<fn_entity, fn_result, fn_pc>>

non_merge_vars ==
    <<dedupe_vars, onto_vars, name_vars, cache_vars, eval_vars, triples_vars,
      fn_vars>>

non_dedupe_vars ==
    <<merge_vars, onto_vars, name_vars, cache_vars, eval_vars, triples_vars,
      fn_vars>>

non_onto_vars ==
    <<merge_vars, dedupe_vars, name_vars, cache_vars, eval_vars, triples_vars,
      fn_vars>>

non_name_vars ==
    <<merge_vars, dedupe_vars, onto_vars, cache_vars, eval_vars, triples_vars,
      fn_vars>>

non_cache_vars ==
    <<merge_vars, dedupe_vars, onto_vars, name_vars, eval_vars, triples_vars,
      fn_vars>>

non_eval_vars ==
    <<merge_vars, dedupe_vars, onto_vars, name_vars, cache_vars, triples_vars,
      fn_vars>>

non_triples_vars ==
    <<merge_vars, dedupe_vars, onto_vars, name_vars, cache_vars, eval_vars, fn_vars>>

vars == <<merge_vars, dedupe_vars, onto_vars, name_vars, cache_vars, eval_vars, triples_vars,
          fn_vars>>

(***************************************************************************)
(* Bounds of the model.                                                    *)
(***************************************************************************)
MaxBatches == 3
MaxNodes == 4
MaxRels == 1
MaxRichNodes == 3
MaxRuns == 2
MaxOntoBatches == 2
MaxOntoItems == 3
MaxNameLen == 4
MaxCacheRuns == 2
MaxCacheTodo == 2
MaxEntities == 3
MaxJointEntities == 1
MaxDepth == 2
MaxWidth == 2
MaxRelRecords == 1
MaxGraphNodes == 2
MaxFragments == 3
MaxFragmentNodes == 2
MaxLoadedEntities == 1
MaxCollectEntities == 3
MaxTypedNodes == 3

(***************************************************************************)
(* Python's str.isdigit, int and str on decimal strings.                   *)
(***************************************************************************)
DigitChars == <<"0", "1", "2", "3", "4", "5", "6", "7", "8", "9">>

Digits == {DigitChars[d] : d \in DOMAIN DigitChars}

DigitVal(c) == (CHOOSE d \in DOMAIN DigitChars : DigitChars[d] = c) - 1

isdigit(s) == Len(s) > 0 /\ \A k \in DOMAIN s : s[k] \in Digits

RECURSIVE int(_)
int(s) == IF Len(s) = 0 THEN 0
          ELSE 10 * int(SubSeq(s, 1, Len(s) - 1)) + DigitVal(s[Len(s)])

RECURSIVE str(_)
str(n) == IF n < 10 THEN <<DigitChars[n + 1]>>
          ELSE str(n \div 10) \o <<DigitChars[(n % 10) + 1]>>

SetMax(S) == CHOOSE x \in S : \A y \in S : y <= x

(***************************************************************************)
(* The inputs of clean_graph: node ids, relationship endpoints, batches.   *)
(***************************************************************************)
IdStrs == {<<"0">>, <<"1">>, <<"0", "1">>, <<"a">>}

EndpointStrs == {<<"0">>, <<"1">>, <<"a">>}

\* every node of a batch file carries its own name, so that a node can be
\* told from every other one whatever id it ends with
NodeNames == <<"N1", "N2", "N3", "N4", "N5", "N6", "N7", "N8">>

RelDomain == [startNode : EndpointStrs, endNode : EndpointStrs, type : {"REL"}]

\* the nondecreasing maps of 1..n into 1..nb: which batch holds which element
BatchSplits(n, nb) ==
    {f \in [1..n -> 1..nb] : \A p \in 1..n, q \in 1..n : p <= q => f[p] <= f[q]}

SelectIdx(n, f, b) == {p \in 1..n : f[p] = b}

RECURSIVE SetToSortedSeq(_)
SetToSortedSeq(S) ==
    IF S = {} THEN <<>>
    ELSE LET m == CHOOSE x \in S : \A y \in S : x <= y
         IN <<m>> \o SetToSortedSeq(S \ {m})

InputNode(ids, p) ==
    [id |-> ids[p], labels |-> <<"Thing">>, properties |-> ("name" :> NodeNames[p])]

InputBatch(ids, nf, rels, rf, b) ==
    LET np == SetToSortedSeq(SelectIdx(Len(ids), nf, b))
        rp == SetToSortedSeq(SelectIdx(Len(rels), rf, b))
    IN [nodes |-> [j \in DOMAIN np |-> InputNode(ids, np[j])],
        relationships |-> [j \in DOMAIN rp |-> rels[rp[j]]]]

(***************************************************************************)
(* clean_graph                                                             *)
(***************************************************************************)
IntIdx(nodes) == {j \in DOMAIN nodes : isdigit(nodes[j].id)}

\* line 212-213: max([int(node['id']) ... if node['id'].isdigit()]) + 1;
\* max() of an empty list raises ValueError
has_int_id(node_list) == IntIdx(node_list) # {}

max_id_NoPlusOne(node_list) == SetMax({int(node_list[j].id) : j \in IntIdx(node_list)})

max_id_Length(node_list) == Len(node_list)

max_id(node_list) == SetMax({int(node_list[j].id) : j \in IntIdx(node_list)}) + 1

new_id_NoIncrement(nodes, j, start) == start

\* the value of max_id when node j of the batch is reached (line 219, 222)
new_id(nodes, j, start) == start + Cardinality({k \in IntIdx(nodes) : k < j})

\* lines 216-223: the batch's nodes as appended to new_node_list
renumbered_nodes(nodes, start) ==
    [j \in DOMAIN nodes |->
        IF isdigit(nodes[j].id)
        THEN [nodes[j] EXCEPT !.id = str(new_id(nodes, j, start))]
        ELSE nodes[j]]

\* lines 214-222: id_mapping after the node loop; a later node with the same
\* int(old_id) overwrites the entry of an earlier one
id_mapping(nodes, start) ==
    LET keys == {int(nodes[j].id) : j \in IntIdx(nodes)}
    IN [k \in keys |->
          new_id(nodes, SetMax({j \in IntIdx(nodes) : int(nodes[j].id) = k}), start)]

remap_endpoint_Unchanged(node_id, mapping) == node_id

remap_endpoint_Cleared(node_id, mapping) ==
    IF isdigit(node_id) /\ int(node_id) \in DOMAIN mapping
    THEN str(mapping[int(node_id)])
    ELSE <<>>

\* lines 228-231: str(id_mapping.get(int(x), x)) if x.isdigit() else x
remap_endpoint(node_id, mapping) ==
    IF isdigit(node_id)
    THEN IF int(node_id) \in DOMAIN mapping THEN str(mapping[int(node_id)]) ELSE node_id
    ELSE node_id

\* lines 225-232
remapped_relations(rels, mapping) ==
    [j \in DOMAIN rels |->
        [rels[j] EXCEPT !.startNode = remap_endpoint(rels[j].startNode, mapping),
                        !.endNode = remap_endpoint(rels[j].endNode, mapping)]]

\* lines 211-232: one batch after batch "0" folded into the accumulator
merge_batch(node_list, rel_list, batch) ==
    LET start == max_id(node_list)
    IN [nodes |-> node_list \o renumbered_nodes(batch.nodes, start),
        relationships |->
            rel_list \o remapped_relations(batch.relationships,
                                           id_mapping(batch.nodes, start))]

\* lines 205-235 as a function of the batch file: the merged graph, or the
\* ValueError of line 212
RECURSIVE fold_batches(_, _, _)
fold_batches(batches, k, acc) ==
    IF ~acc.ok \/ k > Len(batches) THEN acc
    ELSE IF ~has_int_id(acc.nodes) THEN [acc EXCEPT !.ok = FALSE]
    ELSE LET m == merge_batch(acc.nodes, acc.relationships, batches[k])
         IN fold_batches(batches, k + 1,
                         [ok |-> TRUE, nodes |-> m.nodes, relationships |-> m.relationships])

clean_graph(batches) ==
    fold_batches(batches, 2,
                 [ok |-> TRUE, nodes |-> batches[1].nodes,
                  relationships |-> batches[1].relationships])

EmptyGraph == [nodes |-> <<>>, relationships |-> <<>>]

\* clean_graph is not running
MergeIdle ==
    /\ kg_batches = <<>>
    /\ batch_i = 0
    /\ new_node_list = <<>>
    /\ new_rel_list = <<>>
    /\ merge_pc = "idle"
    /\ merged_file = EmptyGraph

\* remove_duplicates_in_kg is not running
DedupeIdle ==
    /\ kg_file = EmptyGraph
    /\ kg_input = EmptyGraph
    /\ kg_prev = EmptyGraph
    /\ dedupe_runs = 0
    /\ dedupe_pc = "idle"

NoRelations == [type \in {} |-> <<>>]

NoEmbeddings == [description \in {} |-> <<>>]

EmptyOntology == [entities |-> <<>>, relationships |-> NoRelations]

\* clean_ontology is not running
OntoIdle ==
    /\ tmp_ontology = <<>>
    /\ onto_i = 0
    /\ entity_i = 0
    /\ relation_i = 0
    /\ entities = <<>>
    /\ relations = NoRelations
    /\ descr_embedding_mapping = NoEmbeddings
    /\ sub_rel_counter = 0
    /\ onto_pc = "idle"
    /\ ontology_file = EmptyOntology

\* _replace_nonchar is not called on its own
NameIdle ==
    /\ name_arg = <<>>
    /\ name_result = <<>>
    /\ name_pc = "idle"

\* a file that does not exist, and the file that holds a mapping
Absent == [exists |-> FALSE, content |-> NoEmbeddings]

FileOf(mapping) == [exists |-> TRUE, content |-> mapping]

\* no run of clean_ontology on the embedding files
CacheIdle ==
    /\ embedding_file = Absent
    /\ turbo_file = Absent
    /\ cache_mapping = NoEmbeddings
    /\ cache_todo = <<>>
    /\ cache_requested = {}
    /\ cache_obtained = {}
    /\ cache_runs = 0
    /\ cache_pc = "idle"

NoResults == [metric \in {} |-> 0]

\* no run of run_structural_evaluation
EvalIdle ==
    /\ eval_ontology = [entities |-> <<>>, relationships |-> NoRelations]
    /\ eval_graph = [nodes |-> <<>>]
    /\ eval_results = NoResults
    /\ eval_pc = "idle"
    /\ eval_outfile = <<>>

\* generate_triples has not been called
TriplesIdle ==
    /\ triples_include_properties = FALSE
    /\ triples_returned = <<>>
    /\ triples_pc = "idle"

\* neither get_entities_onto nor _get_nsups is called on its own
FnIdle ==
    /\ fn_entity = ""
    /\ fn_result = <<>>
    /\ fn_pc = "idle"

\* every engine but the named one is at rest
IdleExcept(engine) ==
    /\ engine = "merge" \/ MergeIdle
    /\ engine = "dedupe" \/ DedupeIdle
    /\ engine = "onto" \/ OntoIdle
    /\ engine = "name" \/ NameIdle
    /\ engine = "cache" \/ CacheIdle
    /\ engine = "eval" \/ EvalIdle
    /\ engine = "triples" \/ TriplesIdle
    /\ engine = "fn" \/ FnIdle

MergeInit ==
    /\ \E nb \in 1..MaxBatches, n \in 0..MaxNodes, m \in 0..MaxRels :
         \E ids \in [1..n -> IdStrs], rels \in [1..m -> RelDomain] :
           \E nf \in BatchSplits(n, nb), rf \in BatchSplits(m, nb) :
              kg_batches = [b \in 1..nb |-> InputBatch(ids, nf, rels, rf, b)]
    /\ batch_i = 0
    /\ new_node_list = <<>>
    /\ new_rel_list = <<>>
    /\ merge_pc = "loop"
    /\ merged_file = EmptyGraph
    /\ IdleExcept("merge")

\* lines 208-210: batch "0" seeds the accumulator
MergeFirstBatch ==
    /\ merge_pc = "loop"
    /\ batch_i = 0
    /\ new_node_list' = kg_batches[1].nodes
    /\ new_rel_list' = kg_batches[1].relationships
    /\ batch_i' = 1
    /\ UNCHANGED <<kg_batches, merge_pc, merged_file, non_merge_vars>>

\* lines 211-232
MergeNextBatch ==
    /\ merge_pc = "loop"
    /\ batch_i >= 1
    /\ batch_i < Len(kg_batches)
    /\ has_int_id(new_node_list)
    /\ LET m == merge_batch(new_node_list, new_rel_list, kg_batches[batch_i + 1])
       IN /\ new_node_list' = m.nodes
          /\ new_rel_list' = m.relationships
    /\ batch_i' = batch_i + 1
    /\ UNCHANGED <<kg_batches, merge_pc, merged_file, non_merge_vars>>

\* line 212: max() of an empty list; nothing is written
MergeValueError ==
    /\ merge_pc = "loop"
    /\ batch_i >= 1
    /\ batch_i < Len(kg_batches)
    /\ ~has_int_id(new_node_list)
    /\ merge_pc' = "error"
    /\ UNCHANGED <<kg_batches, batch_i, new_node_list, new_rel_list, merged_file, non_merge_vars>>

\* lines 234-235
WriteMergedGraph ==
    /\ merge_pc = "loop"
    /\ batch_i = Len(kg_batches)
    /\ merged_file' = [nodes |-> new_node_list, relationships |-> new_rel_list]
    /\ merge_pc' = "written"
    /\ UNCHANGED <<kg_batches, batch_i, new_node_list, new_rel_list, non_merge_vars>>

MergeNext ==
    \/ MergeFirstBatch
    \/ MergeNextBatch
    \/ MergeValueError
    \/ WriteMergedGraph

SpecMerge == MergeInit /\ [][MergeNext]_vars

(***************************************************************************)
(* The inputs of remove_duplicates_in_kg: graphs of up to MaxNodes nodes   *)
(* with free ids and names, and graphs of up to MaxRichNodes nodes with    *)
(* ids "0", "1", ... and free names, labels and population values.         *)
(***************************************************************************)
DedupeIdStrs == {<<"0">>, <<"1">>, <<"a">>}

NoProperties == [k \in {} |-> ""]

\* the properties of a node with free id: a name, or no "name" key
PlainProperties == {("name" :> "Paris"), ("name" :> "Rome"), NoProperties}

RichNames == {"Paris", ""}

LabelUniverse == {"City", "Capital"}

RichLabels == {<<"City">>, <<"Capital">>}

\* "-" stands for a node without the key "population"
Populations == {"-", "", "2M", "2.1M"}

RichProperties(name, population) ==
    IF population = "-" THEN ("name" :> name)
    ELSE ("name" :> name) @@ ("population" :> population)

PlainNodes == [id : DedupeIdStrs, labels : {<<>>}, properties : PlainProperties]

\* property values that are not strings: the JSON values true and 1, named
\* by their JSON texts
JsonTrue == "true"
JsonOne == "1"

TypedPopulations == {"-", "2M", "2.1M", JsonTrue, JsonOne}

\* a node whose id is its position or "a", with a value of any JSON type
TypedNodeChoices == [numeric : BOOLEAN, name : RichNames, population : TypedPopulations]

TypedNode(j, c) ==
    [id |-> IF c.numeric THEN str(j - 1) ELSE <<"a">>, labels |-> <<"City">>,
     properties |-> RichProperties(c.name, c.population)]

RichNodeChoices == [name : RichNames, labels : RichLabels, population : Populations]

RichNode(j, c) ==
    [id |-> str(j - 1), labels |-> c.labels,
     properties |-> RichProperties(c.name, c.population)]

PlainRels == [startNode : DedupeIdStrs, endNode : DedupeIdStrs, type : {"REL"}]

RichRels(n) ==
    [startNode : {str(j - 1) : j \in 1..n}, endNode : {str(j - 1) : j \in 1..n},
     type : {"REL"}]

(***************************************************************************)
(* remove_duplicates_in_kg                                                 *)
(***************************************************************************)
Range(seq) == {seq[j] : j \in DOMAIN seq}

\* lines 284-285: name = node['properties'].get('name'); if name:
has_name(node) == "name" \in DOMAIN node.properties /\ node.properties["name"] # ""

\* lines 286-288: the bucket of the name is created or extended
add_id(mapping, name, node_id) ==
    IF \E k \in DOMAIN mapping : mapping[k].name = name
    THEN [k \in DOMAIN mapping |->
            IF mapping[k].name = name
            THEN [mapping[k] EXCEPT !.ids = Append(mapping[k].ids, node_id)]
            ELSE mapping[k]]
    ELSE Append(mapping, [name |-> name, ids |-> <<node_id>>])

\* lines 282-288: name_id_mapping, a dict in insertion order, as the
\* sequence of its items
RECURSIVE name_id_mapping_upto(_, _)
name_id_mapping_upto(nodes, n) ==
    IF n = 0 THEN <<>>
    ELSE LET before == name_id_mapping_upto(nodes, n - 1)
         IN IF has_name(nodes[n])
            THEN add_id(before, nodes[n].properties["name"], nodes[n].id)
            ELSE before

name_id_mapping(nodes) == name_id_mapping_upto(nodes, Len(nodes))

\* line 292, 316: len(ids) > 1
is_duplicate_group(ids) == Len(ids) > 1

\* line 295, 317: min(ids, key=int) raises ValueError on an id int() rejects
min_raises(ids) == \E k \in DOMAIN ids : ~isdigit(ids[k])

\* line 295, 317: min(ids, key=int): the first id with the lowest int value
min_id(ids) ==
    LET low == CHOOSE v \in {int(ids[k]) : k \in DOMAIN ids} :
                  \A k \in DOMAIN ids : v <= int(ids[k])
    IN ids[CHOOSE k \in DOMAIN ids :
              /\ int(ids[k]) = low
              /\ \A h \in DOMAIN ids : int(ids[h]) = low => k <= h]

\* line 301: next(n for n in kg['nodes'] if n['id'] == node_id)
node_with_id(nodes, node_id) ==
    nodes[CHOOSE j \in DOMAIN nodes :
            /\ nodes[j].id = node_id
            /\ \A h \in DOMAIN nodes : nodes[h].id = node_id => j <= h]

reconcile_LastWins(properties, node_properties) ==
    [prop \in DOMAIN properties \cup DOMAIN node_properties |->
        IF prop \in DOMAIN node_properties THEN node_properties[prop] ELSE properties[prop]]

\* never cleared: the first value met stays
reconcile_FirstWins(properties, node_properties) ==
    [prop \in DOMAIN properties \cup DOMAIN node_properties |->
        IF prop \in DOMAIN properties THEN properties[prop] ELSE node_properties[prop]]

\* line 307: the != of Python on two values read from JSON: the boolean
\* true and the number 1 are two values that compare equal
not_equal(value, other) == value # other /\ {value, other} # {JsonTrue, JsonOne}

\* lines 304-308: the properties of one member folded into the merged node
reconcile(properties, node_properties) ==
    [prop \in DOMAIN properties \cup DOMAIN node_properties |->
        IF prop \notin DOMAIN properties THEN node_properties[prop]
        ELSE IF prop \in DOMAIN node_properties
                 /\ not_equal(properties[prop], node_properties[prop])
             THEN ""
             ELSE properties[prop]]

\* lines 300-308: the properties of the merged node after the first n ids
RECURSIVE merged_properties(_, _, _)
merged_properties(nodes, ids, n) ==
    IF n = 0 THEN NoProperties
    ELSE reconcile(merged_properties(nodes, ids, n - 1),
                   node_with_id(nodes, ids[n]).properties)

merged_labels_First(nodes, ids) == Range(node_with_id(nodes, ids[1]).labels)

\* lines 296, 302: the set of the labels of the members
merged_labels(nodes, ids) ==
    UNION {Range(node_with_id(nodes, ids[k]).labels) : k \in DOMAIN ids}

\* line 310: list(set) in the iteration order of the set, which Python
\* leaves open: label_order is the order of this run
RECURSIVE list_of_set(_, _)
list_of_set(label_set, label_order) ==
    IF label_order = <<>> THEN <<>>
    ELSE (IF Head(label_order) \in label_set THEN <<Head(label_order)>> ELSE <<>>)
            \o list_of_set(label_set, Tail(label_order))

\* lines 294-310
merged_node(nodes, ids, label_order) ==
    [id |-> min_id(ids),
     labels |-> list_of_set(merged_labels(nodes, ids), label_order),
     properties |-> merged_properties(nodes, ids, Len(ids))]

\* line 311: merged_nodes[merged_node['id']] = merged_node on a dict in
\* insertion order, as the sequence of its values
put_merged(merged, node) ==
    IF \E k \in DOMAIN merged : merged[k].id = node.id
    THEN [k \in DOMAIN merged |-> IF merged[k].id = node.id THEN node ELSE merged[k]]
    ELSE Append(merged, node)

\* lines 290-311
RECURSIVE merged_nodes(_, _, _, _)
merged_nodes(nodes, mapping, n, label_order) ==
    IF n = 0 THEN <<>>
    ELSE LET before == merged_nodes(nodes, mapping, n - 1, label_order)
         IN IF is_duplicate_group(mapping[n].ids)
            THEN put_merged(before, merged_node(nodes, mapping[n].ids, label_order))
            ELSE before

rewrite_StartOnly(relationship, ids) ==
    [relationship EXCEPT
        !.startNode = IF relationship.startNode \in Range(ids) THEN min_id(ids) ELSE @]

\* lines 317-321: one duplicate group applied to one relationship
rewrite(relationship, ids) ==
    [relationship EXCEPT
        !.startNode = IF relationship.startNode \in Range(ids) THEN min_id(ids) ELSE @,
        !.endNode = IF relationship.endNode \in Range(ids) THEN min_id(ids) ELSE @]

\* lines 315-321: the groups applied one after the other, in dict order
RECURSIVE rewritten(_, _, _)
rewritten(relationship, mapping, n) ==
    IF n = 0 THEN relationship
    ELSE LET before == rewritten(relationship, mapping, n - 1)
         IN IF is_duplicate_group(mapping[n].ids)
            THEN rewrite(before, mapping[n].ids)
            ELSE before

\* lines 324-325
duplicate_ids(mapping) ==
    UNION {Range(mapping[k].ids) : k \in {k \in DOMAIN mapping : is_duplicate_group(mapping[k].ids)}}

kept_nodes_All(nodes, mapping) == nodes

kept_nodes_Nameless(nodes, mapping) ==
    SelectSeq(nodes, LAMBDA node : ~has_name(node))

\* lines 326-327
kept_nodes(nodes, mapping) ==
    SelectSeq(nodes, LAMBDA node : node.id \notin duplicate_ids(mapping))

\* line 295: the ValueError of min(ids, key=int) in some duplicate group
dedupe_raises(kg) ==
    \E k \in DOMAIN name_id_mapping(kg.nodes) :
        /\ is_duplicate_group(name_id_mapping(kg.nodes)[k].ids)
        /\ min_raises(name_id_mapping(kg.nodes)[k].ids)

\* lines 281-333: the graph written to outfile
remove_duplicates_in_kg(kg, label_order) ==
    LET mapping == name_id_mapping(kg.nodes)
    IN [nodes |-> kept_nodes(kg.nodes, mapping)
                    \o merged_nodes(kg.nodes, mapping, Len(mapping), label_order),
        relationships |->
            [r \in DOMAIN kg.relationships |->
                rewritten(kg.relationships[r], mapping, Len(mapping))]]

Orderings(S) == {seq \in [1..Cardinality(S) -> S] : Range(seq) = S}

DedupeInit ==
    /\ \/ \E n \in 0..MaxNodes, m \in 0..MaxRels :
            \E nodes \in [1..n -> PlainNodes], rels \in [1..m -> PlainRels] :
               kg_file = [nodes |-> nodes, relationships |-> rels]
       \/ \E n \in 1..MaxRichNodes, m \in 0..MaxRels :
            \E choice \in [1..n -> RichNodeChoices], rels \in [1..m -> RichRels(n)] :
               kg_file = [nodes |-> [j \in 1..n |-> RichNode(j, choice[j])],
                          relationships |-> rels]
    /\ kg_input = kg_file
    /\ kg_prev = kg_file
    /\ dedupe_runs = 0
    /\ dedupe_pc = "ready"
    /\ IdleExcept("dedupe")

\* lines 281-333: one call remove_duplicates_in_kg(kg_file, kg_file)
RemoveDuplicates ==
    /\ dedupe_pc = "ready"
    /\ dedupe_runs < MaxRuns
    /\ ~dedupe_raises(kg_file)
    /\ \E label_order \in Orderings(LabelUniverse) :
          kg_file' = remove_duplicates_in_kg(kg_file, label_order)
    /\ kg_prev' = kg_file
    /\ dedupe_runs' = dedupe_runs + 1
    /\ UNCHANGED <<kg_input, dedupe_pc, non_dedupe_vars>>

\* line 295: ValueError; the file is not written
RemoveDuplicatesValueError ==
    /\ dedupe_pc = "ready"
    /\ dedupe_runs < MaxRuns
    /\ dedupe_raises(kg_file)
    /\ dedupe_pc' = "error"
    /\ UNCHANGED <<kg_file, kg_input, kg_prev, dedupe_runs, non_dedupe_vars>>

DedupeNext ==
    \/ RemoveDuplicates
    \/ RemoveDuplicatesValueError

SpecDedupe == DedupeInit /\ [][DedupeNext]_vars

\* line 281: a graph file whose property values are strings, booleans and
\* numbers
TypedInit ==
    /\ \E n \in 1..MaxTypedNodes, m \in 0..MaxRels :
          \E choice \in [1..n -> TypedNodeChoices], rels \in [1..m -> RichRels(n)] :
             kg_file = [nodes |-> [j \in 1..n |-> TypedNode(j, choice[j])],
                        relationships |-> rels]
    /\ kg_input = kg_file
    /\ kg_prev = kg_file
    /\ dedupe_runs = 0
    /\ dedupe_pc = "ready"
    /\ IdleExcept("dedupe")

SpecTyped == TypedInit /\ [][DedupeNext]_vars

(***************************************************************************)
(* clean_ontology: the merge loop of lines 40-74, started in the state     *)
(* lines 29-32 construct.  Lines 33-37, the lookup of a stored embedding   *)
(* file, are not part of this specification: line 34 adds a str to a Path, *)
(* which raises TypeError.  Strings are sequences of characters.           *)
(***************************************************************************)
LowerChars ==
    <<"a", "b", "c", "d", "e", "f", "g", "h", "i", "j", "k", "l", "m",
      "n", "o", "p", "q", "r", "s", "t", "u", "v", "w", "x", "y", "z">>

UpperChars ==
    <<"A", "B", "C", "D", "E", "F", "G", "H", "I", "J", "K", "L", "M",
      "N", "O", "P", "Q", "R", "S", "T", "U", "V", "W", "X", "Y", "Z">>

CharIndex(chars, c) == CHOOSE k \in DOMAIN chars : chars[k] = c

\* str.islower and str.isupper on one character
islower(c) == c \in Range(LowerChars)

isupper(c) == c \in Range(UpperChars)

lower_char(c) == IF isupper(c) THEN LowerChars[CharIndex(UpperChars, c)] ELSE c

upper_char(c) == IF islower(c) THEN UpperChars[CharIndex(LowerChars, c)] ELSE c

\* str.lower
lower(s) == [k \in DOMAIN s |-> lower_char(s[k])]

\* str.capitalize: the first character upper case, the others lower case
capitalize(word) ==
    [k \in DOMAIN word |-> IF k = 1 THEN upper_char(word[k]) ELSE lower_char(word[k])]

\* line 96: replace('-', ' ').replace('_', ' ').replace('\n', '')
RECURSIVE replace_chars(_)
replace_chars(s) ==
    IF s = <<>> THEN <<>>
    ELSE (IF Head(s) \in {"-", "_"} THEN <<" ">>
          ELSE IF Head(s) = "\n" THEN <<>>
          ELSE <<Head(s)>>) \o replace_chars(Tail(s))

\* str.split(): the maximal runs of characters other than whitespace
RECURSIVE split_from(_, _)
split_from(s, word) ==
    IF s = <<>> THEN (IF word = <<>> THEN <<>> ELSE <<word>>)
    ELSE IF Head(s) = " "
         THEN (IF word = <<>> THEN <<>> ELSE <<word>>) \o split_from(Tail(s), <<>>)
         ELSE split_from(Tail(s), Append(word, Head(s)))

split(s) == split_from(s, <<>>)

\* ''.join
RECURSIVE join(_)
join(words) == IF words = <<>> THEN <<>> ELSE Head(words) \o join(Tail(words))

capitalize_word_Always(word) == capitalize(word)

\* lines 101-102
capitalize_word(word) == IF islower(word[1]) THEN capitalize(word) ELSE word

\* lines 81-103: _replace_nonchar
replace_nonchar(s) ==
    LET replaced == replace_chars(s)
        words == split(replaced)
    IN IF " " \in Range(replaced)
       THEN join([k \in DOMAIN words |-> capitalize_word(words[k])])
       ELSE replaced

\* line 133: the threshold 0.55 as the fraction ThresholdNum / ThresholdDen
ThresholdNum == 11
ThresholdDen == 20

RECURSIVE dot_upto(_, _, _)
dot_upto(a, b, n) == IF n = 0 THEN 0 ELSE dot_upto(a, b, n - 1) + a[n] * b[n]

dot(a, b) == dot_upto(a, b, Len(a))

similarity_exceeds_OrEqual(a, b) ==
    /\ dot(a, b) > 0
    /\ ThresholdDen * ThresholdDen * dot(a, b) * dot(a, b)
          >= ThresholdNum * ThresholdNum * dot(a, a) * dot(b, b)

\* lines 131-133: cosine_similarity([a], [b])[0][0] > 0.55, in exact
\* arithmetic: dot / (|a| |b|) > ThresholdNum / ThresholdDen
similarity_exceeds(a, b) ==
    /\ dot(a, b) > 0
    /\ ThresholdDen * ThresholdDen * dot(a, b) * dot(a, b)
          > ThresholdNum * ThresholdNum * dot(a, a) * dot(b, b)

is_duplicate_FirstOnly(embedding_mapping, descriptions, new_description) ==
    similarity_exceeds(embedding_mapping[descriptions[1]],
                       embedding_mapping[new_description])

\* lines 119-135
is_duplicate(embedding_mapping, descriptions, new_description) ==
    \E k \in DOMAIN descriptions :
        similarity_exceeds(embedding_mapping[descriptions[k]],
                           embedding_mapping[new_description])

add_entity_Always(entity_list, entity) == Append(entity_list, entity)

\* lines 46-47
add_entity(entity_list, entity) ==
    IF entity \in Range(entity_list) THEN entity_list ELSE Append(entity_list, entity)

cached_Overwritten(embedding_mapping, description, embedding) ==
    [d \in DOMAIN embedding_mapping \cup {description} |->
        IF d = description THEN embedding ELSE embedding_mapping[d]]

\* lines 52-54: the embedding is requested for a description not cached
cached(embedding_mapping, description, embedding) ==
    IF description \in DOMAIN embedding_mapping THEN embedding_mapping
    ELSE embedding_mapping @@ (description :> embedding)

\* lines 50, 55-56, 58, 67: the record of a relation
relation_record(relation) ==
    [description |-> lower(relation.description),
     source |-> replace_nonchar(relation.source),
     target |-> replace_nonchar(relation.target)]

\* lines 62-63
all_descriptions(records) == [k \in DOMAIN records |-> records[k].description]

\* lines 57-60: True if the relation is stored
is_stored(relation_dict, embedding_mapping, relation) ==
    \/ relation.type \notin DOMAIN relation_dict
    \/ /\ lower(relation.description)
             \notin Range(all_descriptions(relation_dict[relation.type]))
       /\ ~is_duplicate(embedding_mapping, all_descriptions(relation_dict[relation.type]),
                        lower(relation.description))

\* lines 57-68: relations after one relation of a batch
clean_relation(relation_dict, embedding_mapping, relation) ==
    IF relation.type \notin DOMAIN relation_dict
    THEN relation_dict @@ (relation.type :> <<relation_record(relation)>>)
    ELSE IF is_stored(relation_dict, embedding_mapping, relation)
         THEN [relation_dict EXCEPT ![relation.type] = Append(@, relation_record(relation))]
         ELSE relation_dict

(***************************************************************************)
(* The inputs of clean_ontology.                                           *)
(***************************************************************************)
EntityNames ==
    {<<"a", "-", "b">>, <<"a", "_", "b">>, <<"A", "B">>, <<"a", "b">>, <<"a", "\n", "b">>}

RelationTypes == {"locatedIn", "partOf"}

Descriptions == {<<"A">>, <<"a">>, <<"b">>, <<"c">>}

\* the source of the p-th relationship of the file
SourceNames == <<<<"a", "-", "b">>, <<"b", "_", "c">>, <<"c", "\n", "a">>, <<"a", " ", "b", "C">>>>

RelationChoices == [type : RelationTypes, description : Descriptions]

\* the vectors the embedding service returns; the second has cosine
\* similarity 11/20 with the first, the third a greater one
Embeddings ==
    {<<1, 0, 0, 0, 0>>, <<11, 13, 10, 3, 1>>, <<12, 13, 10, 3, 1>>, <<0, 0, 0, 0, 1>>}

InputRelation(choice, p) ==
    [type |-> choice[p].type, description |-> choice[p].description,
     source |-> SourceNames[p], target |-> <<"a", "b">>]

\* batch b of a file whose batches end at the positions ne[b] and nr[b] of
\* the entity names and of the relationships
InputOntology(names, ne, choice, nr, b) ==
    LET e0 == IF b = 1 THEN 0 ELSE ne[b - 1]
        r0 == IF b = 1 THEN 0 ELSE nr[b - 1]
    IN [entities |-> [j \in 1..(ne[b] - e0) |-> names[e0 + j]],
        relationships |-> [j \in 1..(nr[b] - r0) |-> InputRelation(choice, r0 + j)]]

\* the nondecreasing ways to end nb batches within n items
BatchEnds(n, nb) ==
    {f \in [1..nb -> 0..n] : (nb > 0 => f[nb] = n) /\ \A b \in 1..(nb - 1) : f[b] <= f[b + 1]}

OntoInit ==
    /\ \E nb \in 0..MaxOntoBatches, n \in 0..MaxOntoItems :
         \E m \in 0..(MaxOntoItems - n) :
           \E names \in [1..n -> EntityNames], choice \in [1..m -> RelationChoices] :
             \E ne \in BatchEnds(n, nb), nr \in BatchEnds(m, nb) :
               /\ nb = 0 => n = 0 /\ m = 0
               /\ tmp_ontology = [b \in 1..nb |-> InputOntology(names, ne, choice, nr, b)]
    /\ onto_i = 1
    /\ entity_i = 0
    /\ relation_i = 0
    /\ entities = <<>>
    /\ relations = NoRelations
    /\ descr_embedding_mapping = NoEmbeddings
    /\ sub_rel_counter = 0
    /\ onto_pc = "loop"
    /\ ontology_file = EmptyOntology
    /\ IdleExcept("onto")

InBatch == onto_pc = "loop" /\ onto_i <= Len(tmp_ontology)

\* lines 44-47: one entity of the batch
CleanEntity ==
    /\ InBatch
    /\ entity_i < Len(tmp_ontology[onto_i].entities)
    /\ entities' = add_entity(entities,
                              replace_nonchar(tmp_ontology[onto_i].entities[entity_i + 1]))
    /\ entity_i' = entity_i + 1
    /\ UNCHANGED <<tmp_ontology, onto_i, relation_i, relations, descr_embedding_mapping,
                   sub_rel_counter, onto_pc, ontology_file, non_onto_vars>>

\* lines 48-68: one relationship of the batch; get_embedding returns any
\* of the vectors
CleanRelation ==
    /\ InBatch
    /\ entity_i = Len(tmp_ontology[onto_i].entities)
    /\ relation_i < Len(tmp_ontology[onto_i].relationships)
    /\ LET relation == tmp_ontology[onto_i].relationships[relation_i + 1]
       IN \E embedding \in Embeddings :
             /\ descr_embedding_mapping' =
                   cached(descr_embedding_mapping, lower(relation.description), embedding)
             /\ relations' = clean_relation(relations, descr_embedding_mapping', relation)
             /\ sub_rel_counter' =
                   IF is_stored(relations, descr_embedding_mapping', relation)
                   THEN sub_rel_counter + 1 ELSE sub_rel_counter
    /\ relation_i' = relation_i + 1
    /\ UNCHANGED <<tmp_ontology, onto_i, entity_i, entities, onto_pc, ontology_file,
                   non_onto_vars>>

failed_relation_Appended(relation_dict, relation) ==
    IF relation.type \in DOMAIN relation_dict
    THEN [relation_dict EXCEPT ![relation.type] = Append(@, relation_record(relation))]
    ELSE relation_dict @@ (relation.type :> <<relation_record(relation)>>)

\* lines 53-54: the exception leaves the function before lines 55-68
failed_relation(relation_dict, relation) == relation_dict

\* lines 52-54, 106-116: get_embedding raises; nothing catches the
\* exception in clean_ontology or in its caller
EmbeddingRequestFails ==
    /\ InBatch
    /\ entity_i = Len(tmp_ontology[onto_i].entities)
    /\ relation_i < Len(tmp_ontology[onto_i].relationships)
    /\ LET relation == tmp_ontology[onto_i].relationships[relation_i + 1]
       IN /\ lower(relation.description) \notin DOMAIN descr_embedding_mapping
          /\ relations' = failed_relation(relations, relation)
    /\ onto_pc' = "error"
    /\ UNCHANGED <<tmp_ontology, onto_i, entity_i, relation_i, entities,
                   descr_embedding_mapping, sub_rel_counter, ontology_file, non_onto_vars>>

\* lines 40-41: the loops go on to the next batch
NextOntologyBatch ==
    /\ InBatch
    /\ entity_i = Len(tmp_ontology[onto_i].entities)
    /\ relation_i = Len(tmp_ontology[onto_i].relationships)
    /\ onto_i' = onto_i + 1
    /\ entity_i' = 0
    /\ relation_i' = 0
    /\ UNCHANGED <<tmp_ontology, entities, relations, descr_embedding_mapping,
                   sub_rel_counter, onto_pc, ontology_file, non_onto_vars>>

\* lines 73-74
WriteOntology ==
    /\ onto_pc = "loop"
    /\ onto_i = Len(tmp_ontology) + 1
    /\ ontology_file' = [entities |-> entities, relationships |-> relations]
    /\ onto_pc' = "written"
    /\ UNCHANGED <<tmp_ontology, onto_i, entity_i, relation_i, entities, relations,
                   descr_embedding_mapping, sub_rel_counter, non_onto_vars>>

OntoNext ==
    \/ CleanEntity
    \/ CleanRelation
    \/ EmbeddingRequestFails
    \/ NextOntologyBatch
    \/ WriteOntology

SpecOnto == OntoInit /\ [][OntoNext]_vars

(***************************************************************************)
(* _replace_nonchar called on its own, on every string of up to            *)
(* MaxNameLen characters of NameChars and on the strings of the examples.  *)
(***************************************************************************)
NameChars == {"a", "B", "-", "_", " ", "\n"}

WorldWarII == <<"w", "o", "r", "l", "d", "-", "w", "a", "r", "_", "I", "I">>

HelloWorldExample ==
    <<"h", "e", "l", "l", "o", "-", "w", "o", "r", "l", "d", "_",
      "e", "x", "a", "m", "p", "l", "e", "\n">>

NameInit ==
    /\ \/ \E n \in 0..MaxNameLen : name_arg \in [1..n -> NameChars]
       \/ name_arg \in {WorldWarII, HelloWorldExample}
    /\ name_result = <<>>
    /\ name_pc = "called"
    /\ IdleExcept("name")

\* lines 81-103
ReplaceNonchar ==
    /\ name_pc = "called"
    /\ name_result' = replace_nonchar(name_arg)
    /\ name_pc' = "returned"
    /\ UNCHANGED <<name_arg, non_name_vars>>

NameNext == ReplaceNonchar

SpecName == NameInit /\ [][NameNext]_vars

(***************************************************************************)
(* clean_ontology and the embedding files: the runs of lines 29-78 on one  *)
(* tmp_ontology_file, with the loop of lines 40-68 reduced to its requests *)
(* to the embedding cache.  Line 34 adds a str to a Path and raises        *)
(* TypeError (EmbeddingPathTypeError); the other actions are lines 35-78   *)
(* for embedding_file the path EMBEDDING_PATH followed by the model name.  *)
(***************************************************************************)
CacheDescriptions == {"located in", "part of"}

\* the vector get_embedding returns for a description in run number run
embedding_of(description, run) == <<description, run>>

\* the contents an embedding file can have before the first run
StoredFiles ==
    {FileOf([description \in known |-> embedding_of(description, 0)]) :
        known \in SUBSET CacheDescriptions}

CacheInit ==
    /\ embedding_file \in {Absent} \cup StoredFiles
    /\ turbo_file \in {Absent} \cup StoredFiles
    /\ cache_mapping = NoEmbeddings
    /\ \E n \in 0..MaxCacheTodo : cache_todo \in [1..n -> CacheDescriptions]
    /\ cache_requested = {}
    /\ cache_obtained = {}
    /\ cache_runs = 1
    /\ cache_pc = "start"
    /\ IdleExcept("cache")

\* line 34 as written: Path + str raises TypeError
EmbeddingPathTypeError ==
    /\ cache_pc = "start"
    /\ cache_pc' = "TypeError"
    /\ UNCHANGED <<embedding_file, turbo_file, cache_mapping, cache_todo, cache_requested,
                   cache_obtained, cache_runs, non_cache_vars>>

\* line 35: embedding_file does not exist
NoEmbeddingFile ==
    /\ cache_pc = "start"
    /\ ~embedding_file.exists
    /\ cache_pc' = "loop"
    /\ UNCHANGED <<embedding_file, turbo_file, cache_mapping, cache_todo, cache_requested,
                   cache_obtained, cache_runs, non_cache_vars>>

\* lines 35-37: embedding_file exists and the file named at line 36 is loaded
LoadTurboFile ==
    /\ cache_pc = "start"
    /\ embedding_file.exists
    /\ turbo_file.exists
    /\ cache_mapping' = turbo_file.content
    /\ cache_pc' = "loop"
    /\ UNCHANGED <<embedding_file, turbo_file, cache_todo, cache_requested,
                   cache_obtained, cache_runs, non_cache_vars>>

\* line 36: embedding_file exists and open raises FileNotFoundError
LoadFileNotFound ==
    /\ cache_pc = "start"
    /\ embedding_file.exists
    /\ ~turbo_file.exists
    /\ cache_pc' = "FileNotFoundError"
    /\ UNCHANGED <<embedding_file, turbo_file, cache_mapping, cache_todo, cache_requested,
                   cache_obtained, cache_runs, non_cache_vars>>

\* lines 50-54: the description of one relationship is looked up and, if
\* it is not in the mapping, requested
LookUpEmbedding ==
    /\ cache_pc = "loop"
    /\ cache_todo # <<>>
    /\ cache_mapping' = cached(cache_mapping, Head(cache_todo),
                               embedding_of(Head(cache_todo), cache_runs))
    /\ cache_requested' = IF Head(cache_todo) \in DOMAIN cache_mapping
                          THEN cache_requested
                          ELSE cache_requested \cup {Head(cache_todo)}
    /\ cache_todo' = Tail(cache_todo)
    /\ UNCHANGED <<embedding_file, turbo_file, cache_obtained, cache_runs, cache_pc,
                   non_cache_vars>>

\* lines 76-78: embedding_file does not exist and is written
WriteEmbeddingFile ==
    /\ cache_pc = "loop"
    /\ cache_todo = <<>>
    /\ ~embedding_file.exists
    /\ embedding_file' = FileOf(cache_mapping)
    /\ cache_pc' = "completed"
    /\ UNCHANGED <<turbo_file, cache_mapping, cache_todo, cache_requested,
                   cache_obtained, cache_runs, non_cache_vars>>

\* line 76: embedding_file exists and is left as it is
KeepEmbeddingFile ==
    /\ cache_pc = "loop"
    /\ cache_todo = <<>>
    /\ embedding_file.exists
    /\ cache_pc' = "completed"
    /\ UNCHANGED <<embedding_file, turbo_file, cache_mapping, cache_todo, cache_requested,
                   cache_obtained, cache_runs, non_cache_vars>>

\* a later call of clean_ontology on the same tmp_ontology_file
LaterRun ==
    /\ cache_pc \in {"completed", "TypeError", "FileNotFoundError"}
    /\ cache_runs < MaxCacheRuns
    /\ cache_runs' = cache_runs + 1
    /\ cache_obtained' = IF cache_pc = "completed"
                         THEN cache_obtained \cup cache_requested
                         ELSE cache_obtained
    /\ cache_requested' = {}
    /\ cache_mapping' = NoEmbeddings
    /\ \E n \in 0..MaxCacheTodo : cache_todo' \in [1..n -> CacheDescriptions]
    /\ cache_pc' = "start"
    /\ UNCHANGED <<embedding_file, turbo_file, non_cache_vars>>

CacheNext ==
    \/ EmbeddingPathTypeError
    \/ NoEmbeddingFile
    \/ LoadTurboFile
    \/ LoadFileNotFound
    \/ LookUpEmbedding
    \/ WriteEmbeddingFile
    \/ KeepEmbeddingFile
    \/ LaterRun

SpecCache == CacheInit /\ [][CacheNext]_vars

(***************************************************************************)
(* Python's division to a float: int / int (lines 100, 151, 198, 219, 241, *)
(* 308) and 1 / float (line 308) give the IEEE 754 double nearest to the   *)
(* quotient, ties to even.  A double is here its significand m, a number   *)
(* of MantDig bits, and its exponent e: m * 2^e.  Significands and         *)
(* remainders are written with four digits of base LimbBase, the lowest    *)
(* digit first.                                                            *)
(***************************************************************************)
MantDig == 53

LimbBase == 2 ^ 14

\* n < LimbBase^2 as a number of four digits
big(n) == <<n % LimbBase, (n \div LimbBase) % LimbBase, 0, 0>>

\* the digits are tuples, which are computed once
dbl_digit(x, i) ==
    ((2 * x[i]) % LimbBase) + (IF i > 1 /\ 2 * x[i - 1] >= LimbBase THEN 1 ELSE 0)

dbl(x) == <<dbl_digit(x, 1), dbl_digit(x, 2), dbl_digit(x, 3), dbl_digit(x, 4)>>

inc_digit(x, i) ==
    IF \A j \in 1..(i - 1) : x[j] = LimbBase - 1 THEN (x[i] + 1) % LimbBase ELSE x[i]

inc(x) == <<inc_digit(x, 1), inc_digit(x, 2), inc_digit(x, 3), inc_digit(x, 4)>>

geq(x, y) ==
    IF x[4] # y[4] THEN x[4] > y[4]
    ELSE IF x[3] # y[3] THEN x[3] > y[3]
    ELSE IF x[2] # y[2] THEN x[2] > y[2]
    ELSE x[1] >= y[1]

\* x - y for x >= y, with the borrows b2, b3, b4 into the higher digits
sub(x, y) ==
    LET b2 == IF x[1] < y[1] THEN 1 ELSE 0
        b3 == IF x[2] - b2 < y[2] THEN 1 ELSE 0
        b4 == IF x[3] - b3 < y[3] THEN 1 ELSE 0
    IN <<(x[1] - y[1] + LimbBase) % LimbBase,
         (x[2] - y[2] - b2 + LimbBase) % LimbBase,
         (x[3] - y[3] - b3 + LimbBase) % LimbBase,
         (x[4] - y[4] - b4 + LimbBase) % LimbBase>>

\* 2^(MantDig - 1) and 2^MantDig: the least significand and the first
\* number that is too large for one
MinSignificand == <<0, 0, 0, 2 ^ (MantDig - 1 - 42)>>

EndSignificand == dbl(MinSignificand)

\* a / b for ints 0 <= a, 0 < b, both below 2^10: x / y = (a / b) / 2^shift
\* with 1 <= x / y < 2, then the four digits of the quotient by long division
RECURSIVE align(_, _, _)
align(x, y, shift) ==
    IF x < y THEN align(2 * x, y, shift - 1)
    ELSE IF x >= 2 * y THEN align(x, 2 * y, shift + 1)
    ELSE [x |-> x, y |-> y, shift |-> shift]

\* round to nearest, ties to even: r the remainder of the division by y
rounded(m, r_is_more_than_half, r_is_half, e) ==
    LET up == r_is_more_than_half \/ (r_is_half /\ m[1] % 2 = 1)
        n == IF up THEN inc(m) ELSE m
    IN IF n = EndSignificand THEN [m |-> MinSignificand, e |-> e + 1]
       ELSE [m |-> n, e |-> e]

FloatZero == [m |-> big(0), e |-> 0]

truediv(a, b) ==
    IF a = 0 THEN FloatZero
    ELSE LET n == align(a, b, 0)
             top == n.x * (2 ^ (MantDig - 1 - 42))
             d4 == top \div n.y
             r4 == top % n.y
             d3 == (r4 * LimbBase) \div n.y
             r3 == (r4 * LimbBase) % n.y
             d2 == (r3 * LimbBase) \div n.y
             r2 == (r3 * LimbBase) % n.y
             d1 == (r2 * LimbBase) \div n.y
             r1 == (r2 * LimbBase) % n.y
         IN rounded(<<d1, d2, d3, d4>>, 2 * r1 > n.y, 2 * r1 = n.y,
                    n.shift - (MantDig - 1))

\* 1 / f for a float f > 0: 2^k / f.m with 1 <= 2^k / f.m < 2, then MantDig - 1
\* more binary digits of the quotient by long division
RECURSIVE one_above(_, _, _)
one_above(x, y, k) == IF geq(x, y) THEN [x |-> x, k |-> k] ELSE one_above(dbl(x), y, k + 1)

\* one more binary digit of the quotient q, r2 twice the remainder
quotient_step(q, r2, y) ==
    IF geq(r2, y) THEN [q |-> <<q[1] + 1, q[2], q[3], q[4]>>, r |-> sub(r2, y)]
    ELSE [q |-> q, r |-> r2]

RECURSIVE quotient(_, _, _, _)
quotient(q, r, y, bits) ==
    IF bits = 0 THEN [q |-> q, r |-> r]
    ELSE CHOOSE result \in
            {quotient(step.q, step.r, y, bits - 1) :
                step \in {quotient_step(q2, r2, y) : q2 \in {dbl(q)}, r2 \in {dbl(r)}}} : TRUE

\* the quotient of 2^k by the significand y, rounded
reciprocal_digits(n, y, e) ==
    CHOOSE result \in
       {rounded(d.q, ~geq(y, dbl(d.r)), dbl(d.r) = y, 0 - n.k - (MantDig - 1) - e) :
           d \in {quotient(big(1), sub(n.x, y), y, MantDig - 1)}} : TRUE

reciprocal_of(y, e) ==
    CHOOSE result \in {reciprocal_digits(n, y, e) : n \in {one_above(big(1), y, 0)}} : TRUE

reciprocal(f) == CHOOSE result \in {reciprocal_of(g.m, g.e) : g \in {f}} : TRUE

(***************************************************************************)
(* The JSON read by read_json: a dict is the sequence of its items in file *)
(* order, an item a key and a value, a value a dict or a str.              *)
(***************************************************************************)
Str == [isdict |-> FALSE, items |-> <<>>]

Dict(items) == [isdict |-> TRUE, items |-> items]

Item(key, value) == [key |-> key, value |-> value]

has_key(dict, key) == \E i \in DOMAIN dict : dict[i].key = key

get(dict, key) == dict[CHOOSE i \in DOMAIN dict : dict[i].key = key].value

keys(dict) == [i \in DOMAIN dict |-> dict[i].key]

\* 'Other' in key, for the keys of the model
contains_Other(key) == key \in {"Other", "OtherPlaces"}

(***************************************************************************)
(* src/src/evaluation/structural_evaluation.py                             *)
(***************************************************************************)
bucket_count_None(value) == 0

bucket_count_PlusOne(value) == Len(value.items) + 1

\* lines 25-26: count += 1 for every item of the bucket
bucket_count(value) == Len(value.items)

RECURSIVE get_entities_onto(_)
RECURSIVE get_entities_onto_upto(_, _)
\* lines 15-27: entity_list and count after the first n items of the loop
get_entities_onto_upto(tree, n) ==
    IF n = 0 THEN [entity_list |-> <<>>, count |-> 0]
    ELSE LET before == get_entities_onto_upto(tree, n - 1)
             key == tree[n].key
             value == tree[n].value
         IN IF ~value.isdict THEN before
            ELSE IF has_key(value.items, "childrenEntities")
            THEN LET children == get_entities_onto(get(value.items, "childrenEntities").items)
                 IN [entity_list |-> Append(before.entity_list, key) \o children.entity_list,
                     count |-> before.count + 1 + children.count]
            ELSE IF contains_Other(key)
            THEN [entity_list |-> Append(before.entity_list, key) \o keys(value.items),
                  count |-> before.count + 1 + bucket_count(value)]
            ELSE [entity_list |-> Append(before.entity_list, key),
                  count |-> before.count + 1]

get_entities_onto(tree) == get_entities_onto_upto(tree, Len(tree))

RECURSIVE get_properties_onto(_)
RECURSIVE get_properties_onto_upto(_, _)
\* lines 40-48: property_list and count after the first n items of the loop
get_properties_onto_upto(tree, n) ==
    IF n = 0 THEN [property_list |-> <<>>, count |-> 0]
    ELSE LET before == get_properties_onto_upto(tree, n - 1)
             key == tree[n].key
             value == tree[n].value
         IN IF key = "properties"
            THEN [property_list |-> before.property_list \o keys(value.items),
                  count |-> before.count + Len(value.items)]
            ELSE IF value.isdict
            THEN LET nested == get_properties_onto(value.items)
                 IN [property_list |-> before.property_list \o nested.property_list,
                     count |-> before.count + nested.count]
            ELSE before

get_properties_onto(tree) == get_properties_onto_upto(tree, Len(tree))

\* the outcome of a call: the float returned, or the exception raised
Return(value) == [exception |-> "", value |-> value]

Raise(exception) == [exception |-> exception, value |-> FloatZero]

\* a / b of two ints
div(a, b) == IF b = 0 THEN Raise("ZeroDivisionError") ELSE Return(truediv(a, b))

check_if_class_in_onto_SourceOnly(entity, rels) ==
    \E key \in DOMAIN rels : \E i \in DOMAIN rels[key] : rels[key][i].source = entity

\* lines 78-82
check_if_class_in_onto(entity, rels) ==
    \E key \in DOMAIN rels : \E i \in DOMAIN rels[key] :
        rels[key][i].source = entity \/ rels[key][i].target = entity

\* lines 94-100, langchain_onto = False
calculate_instantiated_class_ratio_onto(ontology) ==
    LET collected == get_entities_onto(ontology.entities)
        instantiated_entities ==
            Cardinality({i \in DOMAIN collected.entity_list :
                check_if_class_in_onto(collected.entity_list[i], ontology.relationships)})
    IN div(instantiated_entities, collected.count)

\* lines 132-135
check_if_class_in_kg(entity, graph) ==
    \E n \in DOMAIN graph.nodes : \E l \in DOMAIN graph.nodes[n].labels :
        graph.nodes[n].labels[l] = entity

\* lines 145-151, langchain = False
calculate_instantiated_class_ratio_kg(ontology, graph) ==
    LET collected == get_entities_onto(ontology.entities)
        instantiated_entities ==
            Cardinality({i \in DOMAIN collected.entity_list :
                check_if_class_in_kg(collected.entity_list[i], graph)})
    IN div(instantiated_entities, collected.count)

check_if_property_in_kg_AnyValue(property, graph) ==
    \E n \in DOMAIN graph.nodes : property \in DOMAIN graph.nodes[n].properties

\* lines 176-180: the key is there and its value, a str, is not empty
check_if_property_in_kg(property, graph) ==
    \E n \in DOMAIN graph.nodes :
        /\ property \in DOMAIN graph.nodes[n].properties
        /\ graph.nodes[n].properties[property] # ""

\* lines 191-198, langchain = False
calculate_instantiated_property_ratio(ontology, graph) ==
    LET collected == get_properties_onto(ontology.entities)
        instantiated_properties ==
            Cardinality({i \in DOMAIN collected.property_list :
                check_if_property_in_kg(collected.property_list[i], graph)})
    IN div(instantiated_properties, collected.count)

\* lines 259-260: 'properties' in value is a key of a dict; a str of the
\* model does not hold the text 'properties'
own_properties(value) ==
    IF value.isdict /\ has_key(value.items, "properties")
    THEN keys(get(value.items, "properties").items)
    ELSE <<>>

\* lines 257-263: parent is a dict of one item, the parent's key and properties
child_pair(parent, key, value) ==
    <<<<parent, keys(parent[1].value.items)>>, <<key, own_properties(value)>>>>

RECURSIVE get_parent_child_pairs(_, _)
RECURSIVE get_parent_child_pairs_upto(_, _, _)
\* lines 254-266: parent_child_tuples after the first n items of the loop;
\* the parent None is the empty sequence
get_parent_child_pairs_upto(tree, parent, n) ==
    IF n = 0 THEN <<>>
    ELSE LET before == get_parent_child_pairs_upto(tree, parent, n - 1)
             key == tree[n].key
             value == tree[n].value
             with_child == IF Len(parent) > 0
                           THEN Append(before, child_pair(parent, key, value))
                           ELSE before
         IN IF value.isdict /\ has_key(value.items, "childrenEntities")
            THEN with_child \o get_parent_child_pairs(
                     get(value.items, "childrenEntities").items,
                     <<Item(key, IF has_key(value.items, "properties")
                                 THEN get(value.items, "properties")
                                 ELSE Dict(<<>>))>>)
            ELSE with_child

get_parent_child_pairs(tree, parent) ==
    get_parent_child_pairs_upto(tree, parent, Len(tree))

new_properties_All(parent_properties, child_properties) ==
    Cardinality(Range(child_properties))

\* lines 217-218 and 238-239: len(set(child_properties) - set(parent_properties))
new_properties(parent_properties, child_properties) ==
    Cardinality(Range(child_properties) \ Range(parent_properties))

RECURSIVE subclass_properties_upto(_, _)
\* lines 212-218 and 233-239: subclass_properties after the first n pairs
subclass_properties_upto(parent_child_pairs, n) ==
    IF n = 0 THEN 0
    ELSE subclass_properties_upto(parent_child_pairs, n - 1)
         + new_properties(parent_child_pairs[n][1][2], parent_child_pairs[n][2][2])

\* lines 210-219
calculate_subclass_property_acquisition(ontology) ==
    LET number_of_entities == get_entities_onto(ontology.entities).count
        parent_child_pairs == get_parent_child_pairs(ontology.entities, <<>>)
    IN div(subclass_properties_upto(parent_child_pairs, Len(parent_child_pairs)),
           number_of_entities)

\* lines 232-241
calculate_subclass_property_acquisitionV2(ontology) ==
    LET parent_child_pairs == get_parent_child_pairs(ontology.entities, <<>>)
    IN div(subclass_properties_upto(parent_child_pairs, Len(parent_child_pairs)),
           Len(parent_child_pairs))

None == [found |-> FALSE, path |-> <<>>]

nested_path_Always(current_path, key) == Append(current_path, key)

nested_path_Never(current_path, key) == current_path

\* lines 293-298: the path handed to the search of a nested dict
nested_path(current_path, key) ==
    IF key # "childrenEntities" THEN Append(current_path, key) ELSE current_path

RECURSIVE get_nsups(_, _, _)
RECURSIVE get_nsups_from(_, _, _, _)
\* lines 289-301: the loop from item n on
get_nsups_from(entity, tree, current_path, n) ==
    IF n > Len(tree) THEN None
    ELSE LET key == tree[n].key
             value == tree[n].value
         IN IF key = entity THEN [found |-> TRUE, path |-> current_path]
            ELSE IF value.isdict
            THEN LET path == get_nsups(entity, value.items, nested_path(current_path, key))
                 IN IF path.found THEN path
                    ELSE get_nsups_from(entity, tree, current_path, n + 1)
            ELSE get_nsups_from(entity, tree, current_path, n + 1)

get_nsups(entity, tree, current_path) == get_nsups_from(entity, tree, current_path, 1)

RECURSIVE nsubs_upto(_, _, _)
\* lines 303-307: nsubs after the first n entities
nsubs_upto(entity_list, tree, n) ==
    IF n = 0 THEN 0
    ELSE nsubs_upto(entity_list, tree, n - 1)
         + Len(get_nsups(entity_list[n], tree, <<>>).path)

\* lines 302-308: len(None) raises TypeError, nsubs / 0 and 1 / 0.0 raise
\* ZeroDivisionError
calculate_inverse_multiple_inheritance(ontology) ==
    LET collected == get_entities_onto(ontology.entities)
        nsubs == nsubs_upto(collected.entity_list, ontology.entities, collected.count)
    IN IF \E i \in DOMAIN collected.entity_list :
             ~get_nsups(collected.entity_list[i], ontology.entities, <<>>).found
       THEN Raise("TypeError")
       ELSE IF collected.count = 0 \/ nsubs = 0 THEN Raise("ZeroDivisionError")
       ELSE Return(reciprocal(truediv(nsubs, collected.count)))

(***************************************************************************)
(* The inputs of run_structural_evaluation: ontologies of up to            *)
(* MaxEntities entities in a hierarchy of up to MaxDepth levels below the  *)
(* top, with or without a bucket "Other", and the ontology of the          *)
(* scenario of ten entities.  Relationships and graph nodes vary on the    *)
(* ontologies of up to MaxJointEntities entities.                          *)
(***************************************************************************)
\* the keys of the entities that can have depth more levels below them
EntityKeys(depth) == IF depth = 0 THEN {"B", "C"} ELSE {"A", "B"}

PropertyDicts ==
    {<<Item("p", Str), Item("q", Str)>>, <<Item("r", Str), Item("B", Str)>>}

\* the items an entity has for its properties: none, or one 'properties' dict
PropertyChoices == {<<>>} \cup {<<Item("properties", Dict(d))>> : d \in PropertyDicts}

KeySeqs(n, depth) ==
    {ks \in [1..n -> EntityKeys(depth)] : \A i \in 1..n, j \in 1..n : i # j => ks[i] # ks[j]}

RECURSIVE ItemCount(_)
RECURSIVE ItemCountUpto(_, _)
ItemCountUpto(tree, n) ==
    IF n = 0 THEN 0
    ELSE ItemCountUpto(tree, n - 1) + 1
         + (IF tree[n].value.isdict /\ has_key(tree[n].value.items, "childrenEntities")
            THEN ItemCount(get(tree[n].value.items, "childrenEntities").items)
            ELSE 0)

ItemCount(tree) == ItemCountUpto(tree, Len(tree))

Min(a, b) == IF a <= b THEN a ELSE b

RECURSIVE EntityDicts(_, _)
RECURSIVE EntityValues(_, _)
\* the values of an entity key with up to size entities below it
EntityValues(depth, size) ==
    {Str} \cup
    {Dict(p \o c) :
        p \in PropertyChoices,
        c \in {<<>>} \cup
              (IF depth = 0 THEN {}
               ELSE {<<Item("childrenEntities", Dict(t))>> : t \in EntityDicts(depth - 1, size)})}

\* the dicts of up to size entities, hierarchy up to depth levels deep
EntityDicts(depth, size) ==
    {t \in UNION {{[i \in 1..n |-> Item(ks[i], vs[i])] :
                      ks \in KeySeqs(n, depth),
                      vs \in [1..n -> EntityValues(depth, size - n)]} :
                  n \in 0..Min(MaxWidth, size)} :
        ItemCount(t) <= size}

OtherChoices ==
    {<<>>,
     <<Item("Other", Dict(<<Item("X", Str)>>))>>,
     <<Item("Other", Dict(<<Item("B", Dict(<<Item("properties", Dict(<<Item("p", Str)>>))>>)),
                           Item("X", Str)>>))>>,
     <<Item("OtherPlaces", Dict(<<Item("properties", Dict(<<Item("p", Str)>>))>>))>>}

Trees(size) == {t \o o : t \in EntityDicts(MaxDepth, size), o \in OtherChoices}

EndpointNames == {"A", "B", "X"}

RelationshipChoices ==
    {NoRelations} \cup
    {("relatedTo" :> rs) : rs \in UNION {[1..n -> [source : EndpointNames,
                                                   target : EndpointNames,
                                                   description : {"is related to"}]] :
                                        n \in 1..MaxRelRecords}}

GraphNodeChoices ==
    {[labels |-> <<"A">>, properties |-> ("p" :> "")],
     [labels |-> <<"B", "X">>, properties |-> ("p" :> "x")],
     [labels |-> <<>>, properties |-> ("q" :> "x" @@ "B" :> "")],
     [labels |-> <<"Other">>, properties |-> NoProperties]}

Graphs == {[nodes |-> ns] : ns \in UNION {[1..n -> GraphNodeChoices] : n \in 0..MaxGraphNodes}}

\* ten entities, six of them the source or the target of a relationship;
\* the numbers of their ancestors add up to 13
TenEntities ==
    [entities |->
        <<Item("Person", Dict(<<Item("properties", Dict(<<Item("name", Str)>>)),
              Item("childrenEntities", Dict(<<
                  Item("Artist", Dict(<<Item("properties", Dict(<<Item("genre", Str)>>)),
                      Item("childrenEntities", Dict(<<
                          Item("Writer", Dict(<<Item("childrenEntities", Dict(<<
                              Item("Poet", Dict(<<>>)),
                              Item("Novelist", Dict(<<>>))>>))>>)),
                          Item("Musician", Dict(<<>>))>>))>>)),
                  Item("Scientist", Dict(<<>>)),
                  Item("Politician", Dict(<<>>))>>))>>)),
          Item("Place", Dict(<<>>)),
          Item("Organization", Dict(<<>>))>>,
     relationships |->
        ("bornIn" :> <<[source |-> "Person", target |-> "Place", description |-> "was born in"],
                       [source |-> "Artist", target |-> "Place", description |-> "was born in"]>>
         @@ "memberOf" :> <<[source |-> "Scientist", target |-> "Organization",
                             description |-> "is a member of"],
                            [source |-> "Poet", target |-> "Organization",
                             description |-> "is a member of"]>>)]

TenEntitiesGraph ==
    [nodes |-> <<[labels |-> <<"Person">>, properties |-> ("name" :> "Ada")],
                 [labels |-> <<"Place">>, properties |-> ("genre" :> "")]>>]

EvalInputs ==
    {[ontology |-> [entities |-> t, relationships |-> NoRelations],
      graph |-> [nodes |-> <<>>]] : t \in Trees(MaxEntities)}
    \cup {[ontology |-> [entities |-> t, relationships |-> r], graph |-> g] :
             t \in Trees(MaxJointEntities),
             r \in RelationshipChoices, g \in {[nodes |-> <<>>]}}
    \cup {[ontology |-> [entities |-> t, relationships |-> NoRelations], graph |-> g] :
             t \in Trees(MaxJointEntities), g \in Graphs}
    \cup {[ontology |-> TenEntities, graph |-> TenEntitiesGraph]}

(***************************************************************************)
(* run_structural_evaluation (src/src/evaluate.py, lines 39-79): the six   *)
(* metrics one after the other, then the rows of the csv file.  No call    *)
(* is inside a try: an exception ends the run.                             *)
(***************************************************************************)
EvalInit ==
    /\ \E in \in EvalInputs :
         /\ eval_ontology = in.ontology
         /\ eval_graph = in.graph
    /\ eval_results = NoResults
    /\ eval_pc = "icr_onto"
    /\ eval_outfile = <<>>
    /\ IdleExcept("eval")

\* a statement metric = f(...): the result is kept and the run goes on, or
\* the exception leaves run_structural_evaluation
Assign(metric, outcome, next) ==
    /\ IF outcome.exception = ""
       THEN /\ eval_results' = (eval_results @@ (metric :> outcome.value))
            /\ eval_pc' = next
       ELSE /\ eval_results' = eval_results
            /\ eval_pc' = outcome.exception
    /\ UNCHANGED <<eval_ontology, eval_graph, eval_outfile, non_eval_vars>>

\* line 54
InstantiatedClassRatioOnto ==
    /\ eval_pc = "icr_onto"
    /\ Assign("ICR Onto", calculate_instantiated_class_ratio_onto(eval_ontology), "icr")

\* line 56
InstantiatedClassRatioKg ==
    /\ eval_pc = "icr"
    /\ Assign("ICR KG", calculate_instantiated_class_ratio_kg(eval_ontology, eval_graph), "ipr")

\* line 60
InstantiatedPropertyRatio ==
    /\ eval_pc = "ipr"
    /\ Assign("IPR", calculate_instantiated_property_ratio(eval_ontology, eval_graph), "spa")

\* line 64
SubclassPropertyAcquisition ==
    /\ eval_pc = "spa"
    /\ Assign("SPA", calculate_subclass_property_acquisition(eval_ontology), "spa2")

\* line 67
SubclassPropertyAcquisitionV2 ==
    /\ eval_pc = "spa2"
    /\ Assign("SPA V2", calculate_subclass_property_acquisitionV2(eval_ontology), "imi")

\* line 71
InverseMultipleInheritance ==
    /\ eval_pc = "imi"
    /\ Assign("IMI", calculate_inverse_multiple_inheritance(eval_ontology), "write")

MetricRows == <<"ICR Onto", "ICR KG", "IPR", "SPA", "SPA V2", "IMI">>

\* lines 73-79
WriteMetrics ==
    /\ eval_pc = "write"
    /\ eval_outfile' = [i \in DOMAIN MetricRows |-> <<MetricRows[i], eval_results[MetricRows[i]]>>]
    /\ eval_pc' = "written"
    /\ UNCHANGED <<eval_ontology, eval_graph, eval_results, non_eval_vars>>

EvalNext ==
    \/ InstantiatedClassRatioOnto
    \/ InstantiatedClassRatioKg
    \/ InstantiatedPropertyRatio
    \/ SubclassPropertyAcquisition
    \/ SubclassPropertyAcquisitionV2
    \/ InverseMultipleInheritance
    \/ WriteMetrics

SpecEval == EvalInit /\ [][EvalNext]_vars

(***************************************************************************)
(* Vocabulary of the claims about clean_graph.  These definitions state    *)
(* what is claimed; they do not use the operators that model the code.     *)
(***************************************************************************)
NodeIds(nodes) == {nodes[j].id : j \in DOMAIN nodes}

\* every startNode and endNode is the id of some node of the list
Resolves(nodes, rels) ==
    \A r \in DOMAIN rels :
        rels[r].startNode \in NodeIds(nodes) /\ rels[r].endNode \in NodeIds(nodes)

PairwiseDistinctIds(nodes) ==
    \A p \in DOMAIN nodes, q \in DOMAIN nodes : nodes[p].id = nodes[q].id => p = q

\* the integer ids of the list have pairwise distinct integer values
DistinctIntValues(nodes) ==
    \A p \in DOMAIN nodes, q \in DOMAIN nodes :
        (isdigit(nodes[p].id) /\ isdigit(nodes[q].id) /\ int(nodes[p].id) = int(nodes[q].id))
            => p = q

SelfContained(batch) == Resolves(batch.nodes, batch.relationships)

RECURSIVE NodesBefore(_, _)
NodesBefore(batches, k) ==
    IF k <= 1 THEN 0 ELSE NodesBefore(batches, k - 1) + Len(batches[k - 1].nodes)

RECURSIVE RelsBefore(_, _)
RelsBefore(batches, k) ==
    IF k <= 1 THEN 0 ELSE RelsBefore(batches, k - 1) + Len(batches[k - 1].relationships)

\* the accumulator holds the result of folding the first batch_i batches
Folded == merge_pc # "error" /\ batch_i >= 1

Written == merge_pc = "written"

C2_Original == Written => PairwiseDistinctIds(merged_file.nodes)

\* the ids of batch 0 are pairwise distinct and no non-integer id is the id
\* of two nodes of the batch file
C2_Precondition ==
    /\ PairwiseDistinctIds(kg_batches[1].nodes)
    /\ \A k \in DOMAIN kg_batches, l \in DOMAIN kg_batches :
         \A p \in DOMAIN kg_batches[k].nodes, q \in DOMAIN kg_batches[l].nodes :
            (kg_batches[k].nodes[p].id = kg_batches[l].nodes[q].id
                /\ ~isdigit(kg_batches[k].nodes[p].id))
            => (k = l /\ p = q)

\* C2 amended: the merged ids are pairwise distinct when the ids of batch 0
\* are pairwise distinct and no non-integer id occurs on two nodes.
C2_GlobalIdUniqueness ==
    (Written /\ C2_Precondition) => PairwiseDistinctIds(merged_file.nodes)

\* three batches, each with an integer id "0", merged into distinct ids
C2_Witness ==
    /\ Written
    /\ C2_Precondition
    /\ Len(kg_batches) = 3
    /\ \A k \in DOMAIN kg_batches :
          \E p \in DOMAIN kg_batches[k].nodes : kg_batches[k].nodes[p].id = <<"0">>

\* 1 + the largest integer-valued id among the nodes folded before batch k
NextIdBefore(k) ==
    1 + SetMax({int(new_node_list[j].id) :
                  j \in {j \in 1..NodesBefore(kg_batches, k) : isdigit(new_node_list[j].id)}})

IntNodesBefore(nodes, j) == Cardinality({p \in 1..(j - 1) : isdigit(nodes[p].id)})

\* the id that node j of batch k has in the accumulator
IdAfter(k, j) == new_node_list[NodesBefore(kg_batches, k) + j].id

RelAfter(k, r) == new_rel_list[RelsBefore(kg_batches, k) + r]

\* the integer-id nodes of batch k get next_id, next_id + 1, ... in order
ConsecutiveIds(k) ==
    \A j \in DOMAIN kg_batches[k].nodes :
        isdigit(kg_batches[k].nodes[j].id)
            => IdAfter(k, j) = str(NextIdBefore(k) + IntNodesBefore(kg_batches[k].nodes, j))

\* an endpoint that is the local id of nodes of batch k is now the new id of
\* one of those nodes
EndpointFollowsNode(k, old, new) ==
    LET holders == {j \in DOMAIN kg_batches[k].nodes : kg_batches[k].nodes[j].id = old}
    IN holders # {} => \E j \in holders : new = IdAfter(k, j)

\* an integer endpoint whose value is that of integer-id nodes of batch k is
\* now the new id of the last of those nodes
EndpointFollowsLastValue(k, old, new) ==
    LET holders == {j \in DOMAIN kg_batches[k].nodes :
                      /\ isdigit(kg_batches[k].nodes[j].id)
                      /\ int(kg_batches[k].nodes[j].id) = int(old)}
    IN (isdigit(old) /\ holders # {}) => new = IdAfter(k, SetMax(holders))

ExampleBatches ==
    LET ids == <<(<<"0">>), (<<"1">>), (<<"0">>), (<<"1">>)>>
    IN <<[nodes |-> <<InputNode(ids, 1), InputNode(ids, 2)>>, relationships |-> <<>>],
         [nodes |-> <<InputNode(ids, 3), InputNode(ids, 4)>>,
          relationships |-> <<[startNode |-> <<"0">>, endNode |-> <<"1">>, type |-> "REL"]>>]>>

ExampleMerged ==
    /\ [j \in 1..4 |-> merged_file.nodes[j].id] = <<(<<"0">>), (<<"1">>), (<<"2">>), (<<"3">>)>>
    /\ Len(merged_file.nodes) = 4
    /\ merged_file.relationships =
          <<[startNode |-> <<"2">>, endNode |-> <<"3">>, type |-> "REL"]>>

\* C3 as stated: in every batch after batch 0 the integer-id nodes get the
\* consecutive ids from next_id on, and every endpoint that is a local id of
\* the batch is rewritten to the new id of that node.
C3_Original ==
    Folded =>
        \A k \in 2..batch_i :
            /\ ConsecutiveIds(k)
            /\ \A r \in DOMAIN kg_batches[k].relationships :
                 /\ EndpointFollowsNode(k, kg_batches[k].relationships[r].startNode,
                                        RelAfter(k, r).startNode)
                 /\ EndpointFollowsNode(k, kg_batches[k].relationships[r].endNode,
                                        RelAfter(k, r).endNode)

\* C3 amended: the integer-id nodes get the consecutive ids from next_id on;
\* every integer endpoint whose integer value is that of an integer-id node
\* of the batch is rewritten to the new id of the last such node; and the
\* example of the spec merges to ids "0".."3" and the relationship 2->3.
C3_IdRemapping ==
    /\ Folded =>
        \A k \in 2..batch_i :
            /\ ConsecutiveIds(k)
            /\ \A r \in DOMAIN kg_batches[k].relationships :
                 /\ EndpointFollowsLastValue(k, kg_batches[k].relationships[r].startNode,
                                             RelAfter(k, r).startNode)
                 /\ EndpointFollowsLastValue(k, kg_batches[k].relationships[r].endNode,
                                             RelAfter(k, r).endNode)
    /\ (Written /\ kg_batches = ExampleBatches) => ExampleMerged

\* the example of the spec has been merged
C3_Witness == Written /\ kg_batches = ExampleBatches /\ ExampleMerged

(***************************************************************************)
(* Vocabulary of the claims about remove_duplicates_in_kg.  kg_prev is the *)
(* graph the last call read and kg_file the graph it wrote.                *)
(***************************************************************************)
Deduped == dedupe_runs >= 1

NameOf(node) ==
    IF "name" \in DOMAIN node.properties THEN node.properties["name"] ELSE ""

\* the positions of the nodes with name v
Named(nodes, v) == {j \in DOMAIN nodes : NameOf(nodes[j]) = v}

InputNames == {NameOf(kg_prev.nodes[j]) : j \in DOMAIN kg_prev.nodes} \ {""}

\* the names carried by two or more nodes of the input
Buckets == {v \in InputNames : Cardinality(Named(kg_prev.nodes, v)) >= 2}

BucketIds(v) == {kg_prev.nodes[i].id : i \in Named(kg_prev.nodes, v)}

LabelSet(node) == {node.labels[k] : k \in DOMAIN node.labels}

LabelUnion(v) == UNION {LabelSet(kg_prev.nodes[i]) : i \in Named(kg_prev.nodes, v)}

OneNodePerName ==
    \A v \in InputNames :
        /\ Cardinality(Named(kg_file.nodes, v)) = 1
        /\ \A j \in Named(kg_file.nodes, v) : LabelSet(kg_file.nodes[j]) = LabelUnion(v)

\* C4 as stated: after a run on any graph, every non-empty name of the input
\* is carried by exactly one node of the output, whose label set is the
\* union of the label sets of the input nodes with that name.
C4_Original == Deduped => OneNodePerName

\* C4: after a run on a graph whose node ids are pairwise distinct, every
\* non-empty name of the input is carried by exactly one node of the output,
\* whose label set is the union of the label sets of the input nodes with
\* that name.
C4_DedupCorrectness ==
    (Deduped /\ PairwiseDistinctIds(kg_prev.nodes)) => OneNodePerName

\* a run has collapsed a bucket whose members carry different labels
C4_Witness ==
    /\ dedupe_runs = 1
    /\ PairwiseDistinctIds(kg_prev.nodes)
    /\ \E v \in Buckets :
          /\ \E i \in Named(kg_prev.nodes, v) : LabelSet(kg_prev.nodes[i]) # LabelUnion(v)
          /\ \E j \in Named(kg_file.nodes, v) : LabelSet(kg_file.nodes[j]) = LabelUnion(v)
    /\ Len(kg_file.nodes) < Len(kg_prev.nodes)

\* C5 as stated: for every graph, the second run writes what it read.
C5_Original == dedupe_runs = 2 => kg_file = kg_prev

\* C5: for a graph whose node ids are pairwise distinct, the second run does
\* not raise, finds no name on two nodes and writes exactly the graph it
\* read: same nodes, ids, labels, properties, relationships and endpoints.
C5_Idempotence ==
    /\ (dedupe_runs = 1 /\ PairwiseDistinctIds(kg_input.nodes)) => dedupe_pc # "error"
    /\ (dedupe_runs = 2 /\ PairwiseDistinctIds(kg_input.nodes)) =>
          /\ Buckets = {}
          /\ kg_file = kg_prev

\* the second run has followed a first run that collapsed a bucket
C5_Witness ==
    /\ dedupe_runs = 2
    /\ PairwiseDistinctIds(kg_input.nodes)
    /\ Named(kg_input.nodes, "Paris") # {}
    /\ Len(kg_prev.nodes) < Len(kg_input.nodes)
    /\ kg_file = kg_prev

\* the members of bucket v that carry the property key
Carriers(v, key) ==
    {i \in Named(kg_prev.nodes, v) : key \in DOMAIN kg_prev.nodes[i].properties}

\* the values the members of bucket v supply for the key
Supplied(v, key) == {kg_prev.nodes[i].properties[key] : i \in Carriers(v, key)}

\* the value of the first member, in node-list order, that carries the key
FirstValue(v, key) ==
    kg_prev.nodes[CHOOSE i \in Carriers(v, key) :
                     \A h \in Carriers(v, key) : i <= h].properties[key]

BucketKeys(v) == UNION {DOMAIN kg_prev.nodes[i].properties : i \in Named(kg_prev.nodes, v)}

\* the output nodes that carry an id of bucket v
Canonical(v) == {j \in DOMAIN kg_file.nodes : kg_file.nodes[j].id \in BucketIds(v)}

Reconciled(v, key, value) ==
    IF Cardinality(Supplied(v, key)) = 1 THEN value = FirstValue(v, key) ELSE value = ""

EndpointKeys == {"startNode", "endNode"}

\* the endpoint that named a member of bucket v names an output node with name v
OnCanonical(v, endpoint) ==
    \E j \in Named(kg_file.nodes, v) : endpoint = kg_file.nodes[j].id

EndpointsRewritten ==
    /\ Len(kg_file.relationships) = Len(kg_prev.relationships)
    /\ \A r \in DOMAIN kg_prev.relationships : \A end \in EndpointKeys :
          /\ \A v \in Buckets :
                kg_prev.relationships[r][end] \in BucketIds(v) =>
                    /\ OnCanonical(v, kg_file.relationships[r][end])
                    /\ kg_file.relationships[r][end] \in BucketIds(v)
          /\ kg_prev.relationships[r][end] \in NodeIds(kg_prev.nodes) =>
                kg_file.relationships[r][end] \in NodeIds(kg_file.nodes)

\* C7 as stated: after a run on any graph, every endpoint that was the id of
\* a member of a bucket is the id of the bucket's canonical node, and every
\* endpoint that resolved before the run resolves after it.
C7_Original == Deduped => EndpointsRewritten

\* C7: after a run on a graph whose node ids are pairwise distinct, every
\* endpoint that was the id of a member of a bucket is the id of the
\* bucket's canonical node, and every endpoint that resolved before the run
\* resolves after it.
C7_EndpointRewriting ==
    (Deduped /\ PairwiseDistinctIds(kg_prev.nodes)) => EndpointsRewritten

\* an endNode that named a removed member of a bucket has been rewritten
C7_Witness ==
    /\ dedupe_runs = 1
    /\ PairwiseDistinctIds(kg_prev.nodes)
    /\ \E r \in DOMAIN kg_prev.relationships : \E v \in Buckets :
          /\ kg_prev.relationships[r].endNode \in BucketIds(v)
          /\ kg_file.relationships[r].endNode # kg_prev.relationships[r].endNode
          /\ kg_prev.relationships[r].endNode \notin NodeIds(kg_file.nodes)
          /\ OnCanonical(v, kg_file.relationships[r].endNode)

\* the name of the node an endpoint resolves to: the first node of the list
\* with that id, as generate_triples looks it up
ResolvedName(nodes, node_id) ==
    LET holders == {j \in DOMAIN nodes : nodes[j].id = node_id}
    IN IF holders = {} THEN "(unresolved)"
       ELSE LET node == nodes[CHOOSE j \in holders : \A h \in holders : j <= h]
            IN IF "name" \in DOMAIN node.properties THEN node.properties["name"]
               ELSE "(no name)"

ResolvedTriple(graph, r) ==
    <<ResolvedName(graph.nodes, graph.relationships[r].startNode),
      graph.relationships[r].type,
      ResolvedName(graph.nodes, graph.relationships[r].endNode)>>

\* the multiset of the relationships of a graph, endpoints replaced by names
ResolvedBag(graph) ==
    LET triples == {ResolvedTriple(graph, r) : r \in DOMAIN graph.relationships}
    IN [t \in triples |->
          Cardinality({r \in DOMAIN graph.relationships : ResolvedTriple(graph, r) = t})]

Swapped == <<kg_batches[2], kg_batches[1]>>

C8_Precondition ==
    /\ \A k \in {1, 2} :
         /\ PairwiseDistinctIds(kg_batches[k].nodes)
         /\ DistinctIntValues(kg_batches[k].nodes)
         /\ SelfContained(kg_batches[k])
    /\ \A x \in NodeIds(kg_batches[1].nodes) \cap NodeIds(kg_batches[2].nodes) : isdigit(x)

OntologyWritten == onto_pc = "written"

\* the relationships the loop has handled so far, in the order it met them
RECURSIVE HandledRelations(_)
HandledRelations(b) ==
    IF b = 0 THEN <<>>
    ELSE HandledRelations(b - 1) \o
            (IF b < onto_i THEN tmp_ontology[b].relationships
             ELSE IF b = onto_i THEN SubSeq(tmp_ontology[b].relationships, 1, relation_i)
             ELSE <<>>)

Handled == HandledRelations(Len(tmp_ontology))

\* the entity names of all batches, in file order
RECURSIVE InputEntities(_)
InputEntities(b) ==
    IF b = 0 THEN <<>> ELSE InputEntities(b - 1) \o tmp_ontology[b].entities

Embedding(description) == descr_embedding_mapping[description]

InnerProduct(a, b) == a[1] * b[1] + a[2] * b[2] + a[3] * b[3] + a[4] * b[4] + a[5] * b[5]

\* the cosine similarity of a and b is strictly greater than 0.55 = 11/20
CosineAbove(a, b) ==
    /\ InnerProduct(a, b) > 0
    /\ 400 * InnerProduct(a, b) * InnerProduct(a, b)
          > 121 * InnerProduct(a, a) * InnerProduct(b, b)

\* the cosine similarity of a and b is exactly 0.55
CosineExactly(a, b) ==
    /\ InnerProduct(a, b) > 0
    /\ 400 * InnerProduct(a, b) * InnerProduct(a, b)
          = 121 * InnerProduct(a, a) * InnerProduct(b, b)

RecordOf(relation) ==
    [description |-> lower(relation.description),
     source |-> replace_nonchar(relation.source),
     target |-> replace_nonchar(relation.target)]

\* the records the claim expects under a type after the first n handled
\* relationships: the first one, then every one that no stored description
\* resembles
RECURSIVE ExpectedRecords(_, _)
ExpectedRecords(type, n) ==
    IF n = 0 THEN <<>>
    ELSE LET stored == ExpectedRecords(type, n - 1)
             new == RecordOf(Handled[n])
         IN IF Handled[n].type # type THEN stored
            ELSE IF stored = <<>> THEN <<new>>
            ELSE IF \E k \in DOMAIN stored :
                       CosineAbove(Embedding(stored[k].description),
                                   Embedding(new.description))
                 THEN stored
                 ELSE Append(stored, new)

HandledTypes == {Handled[n].type : n \in DOMAIN Handled}

NormalizedNames ==
    {replace_nonchar(InputEntities(Len(tmp_ontology))[j]) :
        j \in DOMAIN InputEntities(Len(tmp_ontology))}

Returned == name_pc = "returned"

\* the string without its newlines and with " " for every "-" and "_"
Spaced(s) ==
    LET kept == SelectSeq(s, LAMBDA c : c # "\n")
    IN [k \in DOMAIN kept |-> IF kept[k] \in {"-", "_"} THEN " " ELSE kept[k]]

\* the first and the last position of the word that position k is in
WordStart(t, k) ==
    CHOOSE j \in 1..k : (\A i \in j..k : t[i] # " ") /\ (j = 1 \/ t[j - 1] = " ")

WordEnd(t, k) ==
    CHOOSE j \in k..Len(t) : (\A i \in k..j : t[i] # " ") /\ (j = Len(t) \/ t[j + 1] = " ")

\* the word has an upper-case and a lower-case letter
MixedCase(t, k) ==
    /\ \E i \in WordStart(t, k)..WordEnd(t, k) : isupper(t[i])
    /\ \E i \in WordStart(t, k)..WordEnd(t, k) : islower(t[i])

\* the character at position k of a capitalized word
CapitalizedChar(t, k) == IF k = WordStart(t, k) THEN upper_char(t[k]) ELSE lower_char(t[k])

WithoutSpaces(t) == SelectSeq(t, LAMBDA c : c # " ")

\* the result as stated: every word capitalized unless it is mixed-case
StatedResult(s) ==
    LET t == Spaced(s)
    IN WithoutSpaces([k \in DOMAIN t |->
          IF t[k] = " " \/ MixedCase(t, k) THEN t[k] ELSE CapitalizedChar(t, k)])

\* the result of the code: in a string with a space, every word that
\* starts with a lower-case letter capitalized
CamelJoined(s) ==
    LET t == Spaced(s)
    IN IF \E k \in DOMAIN t : t[k] = " "
       THEN WithoutSpaces([k \in DOMAIN t |->
               IF t[k] # " " /\ islower(t[WordStart(t, k)])
               THEN CapitalizedChar(t, k) ELSE t[k]])
       ELSE t

RunCompleted == cache_pc = "completed"

\* the embeddings the run requested are in embedding_file as it obtained them
Persisted ==
    \A description \in cache_requested :
        /\ description \in DOMAIN embedding_file.content
        /\ embedding_file.content[description] = cache_mapping[description]

\* the run has loaded what earlier completed runs obtained
LoadedObtained == cache_obtained \subseteq DOMAIN cache_mapping

\* C12 as stated: a completed run leaves every embedding it requested in the
\* persisted cache, whether or not the file existed before; a later run
\* loads them and requests none of them again.
C12_Original ==
    /\ RunCompleted => Persisted
    /\ cache_pc \in {"loop", "completed"} => LoadedObtained
    /\ cache_pc \notin {"TypeError", "FileNotFoundError"} \/ cache_obtained = {}
    /\ cache_requested \cap cache_obtained = {}

\* the relationship whose embedding request failed
FailedRelation == tmp_ontology[onto_i].relationships[relation_i + 1]

Computed(metric) == metric \in DOMAIN eval_results

Tree == eval_ontology.entities

RECURSIVE PathsOf(_)
PathsOf(tree) ==
    UNION {{<<tree[i].key>>} \cup {<<tree[i].key>> \o p : p \in PathsOf(tree[i].value.items)} :
           i \in DOMAIN tree}

RECURSIVE ValueAt(_, _)
ValueAt(tree, path) ==
    IF Len(path) = 1 THEN get(tree, path[1])
    ELSE ValueAt(get(tree, path[1]).items, Tail(path))

Last(path) == path[Len(path)]

Front(path) == SubSeq(path, 1, Len(path) - 1)

\* a key of the top level or of a childrenEntities mapping, whose value and
\* whose ancestors' values are nested structures
IsEntityPath(path) ==
    /\ Len(path) % 2 = 1
    /\ \A j \in 1..Len(path) :
          IF j % 2 = 0 THEN path[j] = "childrenEntities"
          ELSE ValueAt(Tree, SubSeq(path, 1, j)).isdict

\* a key of the value of a bucket: an entity marked "Other" that has no
\* childrenEntities
IsBucketMember(path) ==
    /\ Len(path) >= 2
    /\ IsEntityPath(Front(path))
    /\ contains_Other(Last(Front(path)))
    /\ ~has_key(ValueAt(Tree, Front(path)).items, "childrenEntities")

\* the entities collected from the tree, one for every place a name has
CollectedEntities == {path \in PathsOf(Tree) : IsEntityPath(path) \/ IsBucketMember(path)}

\* the names that are the source or the target of a record of a relationship type
RelationshipEndpoints ==
    UNION {UNION {{eval_ontology.relationships[type][i].source,
                   eval_ontology.relationships[type][i].target} :
                     i \in DOMAIN eval_ontology.relationships[type]} :
           type \in DOMAIN eval_ontology.relationships}

\* the float 0.6: 0x13333333333333 * 2^-53
SixTenths == [m |-> <<13107, 3276, 13107, 1228>>, e |-> 0 - 53]

\* C14: the Instantiated Class Ratio of the ontology alone is the number of
\* collected entities that are the source or the target of at least one
\* record of at least one relationship type, divided by the number of
\* collected entities; ten entities of which six occur give 0.6.
C14_InstantiatedClassRatioOnto ==
    Computed("ICR Onto") =>
        /\ eval_results["ICR Onto"] =
              truediv(Cardinality({path \in CollectedEntities :
                                      Last(path) \in RelationshipEndpoints}),
                      Cardinality(CollectedEntities))
        /\ (Cardinality(CollectedEntities) = 10
            /\ Cardinality({path \in CollectedEntities :
                               Last(path) \in RelationshipEndpoints}) = 6)
           => eval_results["ICR Onto"] = SixTenths

\* the ratio of the ontology of ten entities has been computed
C14_Witness ==
    /\ eval_ontology = TenEntities
    /\ Computed("ICR Onto")
    /\ Cardinality(CollectedEntities) = 10
    /\ eval_results["ICR Onto"] = SixTenths

\* the properties the ontology declares, one for every place a name has: the
\* keys of a 'properties' mapping that is not inside another one
DeclaredProperties ==
    {path \in PathsOf(Tree) :
        /\ Len(path) >= 2
        /\ path[Len(path) - 1] = "properties"
        /\ \A j \in 1..(Len(path) - 2) : path[j] # "properties"}

\* the graph nodes that have the key among their properties
NodesWith(property) ==
    {n \in DOMAIN eval_graph.nodes : property \in DOMAIN eval_graph.nodes[n].properties}

HasValueOnSomeNode(property) ==
    \E n \in NodesWith(property) : eval_graph.nodes[n].properties[property] # ""

Edges ==
    {path \in PathsOf(Tree) :
        /\ Len(path) >= 3
        /\ path[Len(path) - 1] = "childrenEntities"
        /\ IsEntityPath(SubSeq(path, 1, Len(path) - 2))}

ParentOf(edge) == SubSeq(edge, 1, Len(edge) - 2)

\* the property names the entity at the path declares itself
OwnProperties(path) ==
    {Last(q) : q \in {q \in PathsOf(Tree) :
                        /\ Len(q) = Len(path) + 2
                        /\ SubSeq(q, 1, Len(path)) = path
                        /\ q[Len(path) + 1] = "properties"}}

Acquired(edge) == OwnProperties(edge) \ OwnProperties(ParentOf(edge))

RECURSIVE TotalAcquired(_)
TotalAcquired(edges) ==
    IF edges = {} THEN 0
    ELSE LET edge == CHOOSE e \in edges : TRUE
         IN Cardinality(Acquired(edge)) + TotalAcquired(edges \ {edge})

\* the pairs _get_parent_child_pairs returns for the ontology
PairsOfOntology == get_parent_child_pairs(Tree, <<>>)

\* C16: the parent/child pairs are the edges of the childrenEntities
\* hierarchy, each with the property names the child declares itself (no
\* top-level entity and no member of the bucket "Other" is the child of a
\* pair); Subclass Property Acquisition is the sum over the pairs of the
\* number of child property names the parent does not have, divided by the
\* number of collected entities, and V2 divides the same sum by the number
\* of pairs.
C16_SubclassPropertyAcquisition ==
    /\ Len(PairsOfOntology) = Cardinality(Edges)
    /\ {<<pair[1][1][1].key, pair[2][1], Range(pair[2][2])>> :
            pair \in Range(PairsOfOntology)}
       = {<<Last(ParentOf(edge)), Last(edge), OwnProperties(edge)>> : edge \in Edges}
    /\ \A edge \in Edges : ~IsBucketMember(edge) /\ Len(edge) > 1
    /\ Computed("SPA") =>
          eval_results["SPA"] =
             truediv(TotalAcquired(Edges), Cardinality(CollectedEntities))
    /\ Computed("SPA V2") =>
          eval_results["SPA V2"] = truediv(TotalAcquired(Edges), Cardinality(Edges))

\* both variants have been computed for a hierarchy of three levels beside a
\* bucket "Other": the child acquires properties and the bucket's members
\* count as entities only
C16_Witness ==
    /\ Computed("SPA")
    /\ Computed("SPA V2")
    /\ \E edge \in Edges : Len(edge) = 5
    /\ \E path \in CollectedEntities : IsBucketMember(path)
    /\ TotalAcquired(Edges) > 0
    /\ Cardinality(CollectedEntities) > Cardinality(Edges) + 1
    /\ eval_results["SPA"] # eval_results["SPA V2"]

\* the number of ancestor levels of a collected entity: its ancestors in the
\* hierarchy, and the bucket for a member of a bucket
AncestorLevels(path) ==
    IF IsEntityPath(path) THEN (Len(path) - 1) \div 2
    ELSE ((Len(path) - 2) \div 2) + 1

RECURSIVE TotalLevels(_)
TotalLevels(paths) ==
    IF paths = {} THEN 0
    ELSE LET path == CHOOSE q \in paths : TRUE
         IN AncestorLevels(path) + TotalLevels(paths \ {path})

\* the name of every collected entity is a key at one place of the tree only
UniqueKeys ==
    \A path \in CollectedEntities : {q \in PathsOf(Tree) : Last(q) = Last(path)} = {path}

\* C17 as stated: the result is entity_count / total_path_length, the total
\* taken over the numbers of ancestor levels of the collected entities
C17_Original ==
    Computed("IMI") =>
        eval_results["IMI"] =
            truediv(Cardinality(CollectedEntities), TotalLevels(CollectedEntities))

\* C17: path_to_root finds a path for every collected entity; when the name
\* of every collected entity is a key at one place of the tree only, the
\* Inverse Multiple Inheritance is the float 1 / (total_path_length /
\* entity_count), the quotient inside rounded to a float first, where
\* entity_count is the number of collected entities and total_path_length
\* the sum of their numbers of ancestor levels.
C17_InverseMultipleInheritance ==
    /\ \A path \in CollectedEntities : get_nsups(Last(path), Tree, <<>>).found
    /\ (Computed("IMI") /\ UniqueKeys) =>
          eval_results["IMI"] =
             reciprocal(truediv(TotalLevels(CollectedEntities),
                                Cardinality(CollectedEntities)))

\* the metric has been computed for the ontology of ten entities, whose
\* hierarchy is four levels deep: 1 / (13 / 10) is not the float 10 / 13
C17_Witness ==
    /\ eval_ontology = TenEntities
    /\ Computed("IMI")
    /\ UniqueKeys
    /\ Cardinality(CollectedEntities) = 10
    /\ TotalLevels(CollectedEntities) = 13
    /\ eval_results["IMI"] # truediv(10, 13)

\* the float 1.0
FloatOne == [m |-> MinSignificand, e |-> 0 - (MantDig - 1)]

\* a float of the model is zero or a significand of MantDig bits with an
\* exponent, so never negative; it is at most 1.0 when it is zero, 1.0, or
\* has a lower exponent than 1.0
InUnitInterval(f) == f = FloatZero \/ f = FloatOne \/ f.e < FloatOne.e

\* C18 as stated: for an ontology whose entity names are unique, every
\* result but Inverse Multiple Inheritance is at least 0 and at most 1
C18_Original ==
    \A metric \in {"ICR Onto", "ICR KG", "IPR", "SPA", "SPA V2"} :
        (Computed(metric) /\ UniqueKeys) => InUnitInterval(eval_results[metric])

\* C18: the two Instantiated Class Ratios and the Instantiated Property
\* Ratio are at least 0 and at most 1 whenever they are computed: the
\* numerator counts members of the list whose length is the denominator.
C18_RatioBounds ==
    \A metric \in {"ICR Onto", "ICR KG", "IPR"} :
        Computed(metric) =>
            /\ InUnitInterval(eval_results[metric])
            /\ (eval_results[metric] = FloatZero
                \/ geq(eval_results[metric].m, MinSignificand))

\* the three ratios have been computed: every entity labels a node, some
\* but not all declared properties have a value
C18_Witness ==
    /\ Computed("IPR")
    /\ eval_results["ICR KG"] = FloatOne
    /\ eval_results["IPR"] # FloatZero
    /\ eval_results["IPR"] # FloatOne
    /\ Cardinality(CollectedEntities) >= 2

\* the run has ended in an exception that nothing handles
Aborted == eval_pc \in {"ZeroDivisionError", "TypeError"}

\* C19: a metric whose denominator is zero is reported as an explicit
\* undefined result: the run does not end in an unhandled failure that
\* leaves the remaining metrics uncomputed, and every start of the
\* evaluation gets to its results.
C19_Original == ~Aborted


(***************************************************************************)
(* generate_triples on the file clean_graph has written                    *)
(* (src/src/kg_generation/generate_kg.py, the branch for langchain=False). *)
(***************************************************************************)
\* the keys lines 144-145 and 149-150 try with properties.get, in order
LabelKeys == <<"title", "name", "type", "scientificName", "species", "model", "surName">>

\* dict.get(key) is truthy: the key is there and its value is not empty
truthy_get(properties, key) == key \in DOMAIN properties /\ properties[key] # ""

\* lines 144-147 and 149-150: the first truthy value of the chain of "or",
\* "" standing for a falsy end of the chain (None or '', which line 147
\* makes ''); str(properties.get('value')) is 'None' without the key, which
\* is truthy, so that 'location' and 'branch' are reached only with an
\* empty 'value'
RECURSIVE representative_label_from(_, _)
representative_label_from(properties, k) ==
    IF k > Len(LabelKeys)
    THEN IF "value" \notin DOMAIN properties THEN "None"
         ELSE IF properties["value"] # "" THEN properties["value"]
         ELSE IF truthy_get(properties, "location") THEN properties["location"]
         ELSE IF "branch" \in DOMAIN properties THEN properties["branch"]
         ELSE ""
    ELSE IF truthy_get(properties, LabelKeys[k]) THEN properties[LabelKeys[k]]
    ELSE representative_label_from(properties, k + 1)

representative_label(properties) == representative_label_from(properties, 1)

\* lines 136-137: [node for node in kg['nodes'] if node['id'] == node_id]
nodes_with_id(kg, node_id) ==
    LET is_it(node) == node.id = node_id
    IN SelectSeq(kg.nodes, is_it)

\* a missing start node is an IndexError at start[0] of line 144
head_raises(kg, relation, include_properties) ==
    ~include_properties /\ nodes_with_id(kg, relation.startNode) = <<>>

\* lines 140 and 144-147
head(kg, relation, include_properties) ==
    LET start == nodes_with_id(kg, relation.startNode)
    IN IF include_properties
       THEN IF start # <<>> THEN start[1] ELSE relation.startNode
       ELSE representative_label(start[1].properties)

\* lines 141 and 148-184; the nodes of the merged file are never labelled
\* 'Date', so that the conversion of dates (lines 152-183) is left out
tail(kg, relation, include_properties) ==
    LET end == nodes_with_id(kg, relation.endNode)
    IN IF include_properties
       THEN IF end # <<>> THEN end[1] ELSE relation.endNode
       ELSE IF end # <<>>
            THEN representative_label(end[1].properties)
            ELSE relation.endNode

\* lines 119-121 and 132-187
generate_triples(kg, include_properties) ==
    IF \E j \in DOMAIN kg.relationships :
          head_raises(kg, kg.relationships[j], include_properties)
    THEN Raise("IndexError")
    ELSE Return([j \in DOMAIN kg.relationships |->
                    <<head(kg, kg.relationships[j], include_properties),
                      kg.relationships[j].type,
                      tail(kg, kg.relationships[j], include_properties)>>])

\* a call of generate_triples on the file clean_graph has written
GenerateTriples ==
    /\ merge_pc = "written"
    /\ triples_pc = "idle"
    /\ \E include_properties \in BOOLEAN :
         LET outcome == generate_triples(merged_file, include_properties)
         IN /\ triples_include_properties' = include_properties
            /\ IF outcome.exception # ""
               THEN /\ triples_returned' = <<>>
                    /\ triples_pc' = outcome.exception
               ELSE /\ triples_returned' = outcome.value
                    /\ triples_pc' = "returned"
    /\ UNCHANGED non_triples_vars

TriplesNext ==
    \/ MergeFirstBatch
    \/ MergeNextBatch
    \/ MergeValueError
    \/ WriteMergedGraph
    \/ GenerateTriples

\* clean_graph on a batch file, then generate_triples on what it has written
SpecTriples == MergeInit /\ [][TriplesNext]_vars


\* no node of the merged file has the id
Missing(node_id) == \A j \in DOMAIN merged_file.nodes : merged_file.nodes[j].id # node_id

\* generate_triples has returned a triple whose head or tail is the raw id of
\* an endpoint that no node of the merged file has
RawIdSubstituted ==
    /\ triples_pc = "returned"
    /\ \E j \in DOMAIN triples_returned :
          LET relation == merged_file.relationships[j]
          IN \/ Missing(relation.startNode) /\ triples_returned[j][1] = relation.startNode
             \/ Missing(relation.endNode) /\ triples_returned[j][3] = relation.endNode

\* a merged graph with an unresolved endpoint has been written out
DanglingWritten ==
    Written /\ ~Resolves(merged_file.nodes, merged_file.relationships)

\* C20: an endpoint that does not resolve after a batch has been merged is a
\* hard failure of the merge: a merged graph with an unresolved startNode or
\* endNode is never written out, and generate_triples never puts the raw id
\* in the place of the missing node.
C20_Original == ~DanglingWritten /\ ~RawIdSubstituted


(***************************************************************************)
(* clean_graph on batch files whose fragments may lack the key 'nodes' or  *)
(* the key 'relationships' (postprocess.py:205-235).                       *)
(***************************************************************************)
BatchKeys == {"nodes", "relationships"}

\* the fragment without some of its keys
without(batch, missing) == [key \in BatchKeys \ missing |-> batch[key]]

\* batch['nodes'] and batch['relationships'] do not raise
has_keys(batch) == BatchKeys \subseteq DOMAIN batch

\* the report of Python for batch[key] on a dict without the key
KeyErrorOf(key) ==
    IF key = "nodes" THEN "KeyError: 'nodes'" ELSE "KeyError: 'relationships'"

FragmentInit ==
    /\ \E nb \in 1..MaxFragments, n \in 0..MaxFragmentNodes, m \in 0..MaxRels :
         \E ids \in [1..n -> IdStrs], rels \in [1..m -> RelDomain] :
           \E nf \in BatchSplits(n, nb), rf \in BatchSplits(m, nb) :
             \E missing \in [1..nb -> SUBSET BatchKeys] :
                kg_batches = [b \in 1..nb |->
                                without(InputBatch(ids, nf, rels, rf, b), missing[b])]
    /\ batch_i = 0
    /\ new_node_list = <<>>
    /\ new_rel_list = <<>>
    /\ merge_pc = "loop"
    /\ merged_file = EmptyGraph
    /\ IdleExcept("merge")

\* lines 208-210 on a fragment that has both keys
FirstFragment == has_keys(kg_batches[1]) /\ MergeFirstBatch

\* lines 211-232 on a fragment that has both keys
NextFragment ==
    /\ batch_i >= 1
    /\ batch_i < Len(kg_batches)
    /\ has_keys(kg_batches[batch_i + 1])
    /\ MergeNextBatch

\* line 209 or 210: batch "0" lacks a key; line 209 has bound new_node_list
\* when it is the key 'relationships' that is missing
FirstFragmentKeyError ==
    /\ merge_pc = "loop"
    /\ batch_i = 0
    /\ ~has_keys(kg_batches[1])
    /\ IF "nodes" \in DOMAIN kg_batches[1]
       THEN /\ new_node_list' = kg_batches[1].nodes
            /\ merge_pc' = KeyErrorOf("relationships")
       ELSE /\ new_node_list' = new_node_list
            /\ merge_pc' = KeyErrorOf("nodes")
    /\ UNCHANGED <<kg_batches, batch_i, new_rel_list, merged_file, non_merge_vars>>

\* line 216 or 225: a later batch lacks a key, after max() of line 212 has
\* returned; the node loop has appended the nodes when it is the key
\* 'relationships' that is missing
NextFragmentKeyError ==
    /\ merge_pc = "loop"
    /\ batch_i >= 1
    /\ batch_i < Len(kg_batches)
    /\ has_int_id(new_node_list)
    /\ ~has_keys(kg_batches[batch_i + 1])
    /\ IF "nodes" \in DOMAIN kg_batches[batch_i + 1]
       THEN /\ new_node_list' =
                  new_node_list \o renumbered_nodes(kg_batches[batch_i + 1].nodes,
                                                    max_id(new_node_list))
            /\ merge_pc' = KeyErrorOf("relationships")
       ELSE /\ new_node_list' = new_node_list
            /\ merge_pc' = KeyErrorOf("nodes")
    /\ UNCHANGED <<kg_batches, batch_i, new_rel_list, merged_file, non_merge_vars>>

FragmentNext ==
    \/ FirstFragment
    \/ NextFragment
    \/ FirstFragmentKeyError
    \/ NextFragmentKeyError
    \/ MergeValueError
    \/ WriteMergedGraph

SpecFragment == FragmentInit /\ [][FragmentNext]_vars


\* fragment k is the first one of the batch file that lacks a key
FirstMalformed(k) ==
    /\ ~has_keys(kg_batches[k])
    /\ \A j \in 1..(k - 1) : has_keys(kg_batches[j])

\* the run of clean_graph has ended in an exception
Stopped == merge_pc \notin {"loop", "written"}

\* the reports of an error that names the index of the batch it is about
MalformedInputAt ==
    <<"MalformedInput: batch 0", "MalformedInput: batch 1",
      "MalformedInput: batch 2", "MalformedInput: batch 3">>

\* C21: a batch fragment that lacks the key nodes or the key relationships
\* makes the merge stop at that batch with an error that reports the index
\* of the batch, and no merged output is written.
C21_Original ==
    \A k \in DOMAIN kg_batches :
        FirstMalformed(k)
            => /\ ~Written
               /\ (Stopped /\ batch_i = k - 1) => merge_pc = MalformedInputAt[k]


\* the rank of a character in the order of str comparison ("0" < "9" < "a")
CharRank(c) == IF c \in Digits THEN DigitVal(c) ELSE Len(DigitChars)

\* s < t for two strings, as Python compares them
RECURSIVE LexLess(_, _)
LexLess(s, t) ==
    IF t = <<>> THEN FALSE
    ELSE IF s = <<>> THEN TRUE
    ELSE IF Head(s) = Head(t) THEN LexLess(Tail(s), Tail(t))
    ELSE CharRank(Head(s)) < CharRank(Head(t))

\* the lowest ids of a set: numerically when all of them are integer
\* strings, lexicographically otherwise
LowestIds(ids) ==
    IF \A x \in ids : isdigit(x)
    THEN {x \in ids : \A y \in ids : int(x) <= int(y)}
    ELSE {x \in ids : \A y \in ids : ~LexLess(y, x)}

\* the run on the graph in kg_file has ended in the ValueError of line 295
DedupeFailed == dedupe_pc = "error"

\* C22: for every bucket of two or more nodes sharing a name, with integer
\* ids or with the non-numeric ids that the merge passes through, the run
\* yields one canonical node whose id is the lowest id of the bucket, and
\* the other members of the bucket are absent from the node list.
C22_Original ==
    /\ ~DedupeFailed
    /\ Deduped =>
          \A v \in Buckets :
              /\ Cardinality(Canonical(v)) = 1
              /\ \A j \in Canonical(v) : kg_file.nodes[j].id \in LowestIds(BucketIds(v))


(***************************************************************************)
(* clean_ontology with the mapping of line 37 in place: the loop of lines  *)
(* 40-74 started with descr_embedding_mapping as loaded from a file.       *)
(***************************************************************************)
\* the contents of the file read at lines 36-37; get_embedding returns none
\* of these vectors, so that a loaded entry can be told from a requested one
LoadedMappings ==
    {NoEmbeddings,
     (<<"a">> :> <<0, 0, 0, 1, 0>>),
     (<<"a">> :> <<0, 0, 0, 1, 0>>) @@ (<<"b">> :> <<0, 0, 1, 0, 0>>)}

LoadedInit ==
    /\ \E nb \in 1..MaxOntoBatches, n \in 0..MaxLoadedEntities :
         \E m \in 0..(MaxOntoItems - n) :
           \E names \in [1..n -> EntityNames], choice \in [1..m -> RelationChoices] :
             \E ne \in BatchEnds(n, nb), nr \in BatchEnds(m, nb) :
               tmp_ontology = [b \in 1..nb |-> InputOntology(names, ne, choice, nr, b)]
    /\ onto_i = 1
    /\ entity_i = 0
    /\ relation_i = 0
    /\ entities = <<>>
    /\ relations = NoRelations
    /\ descr_embedding_mapping \in LoadedMappings
    /\ sub_rel_counter = 0
    /\ onto_pc = "loop"
    /\ ontology_file = EmptyOntology
    /\ IdleExcept("onto")

SpecLoaded == LoadedInit /\ [][OntoNext]_vars


\* the normalized description of the relationship the loop is at
CurrentDescription ==
    lower(tmp_ontology[onto_i].relationships[relation_i + 1].description)

CurrentType == tmp_ontology[onto_i].relationships[relation_i + 1].type

\* the step handles one relationship (lines 48-68)
RelationStep == relation_i' = relation_i + 1

\* the descriptions the step has requested an embedding for
Requested == DOMAIN descr_embedding_mapping' \ DOMAIN descr_embedding_mapping

\* the descriptions the step hands to is_duplicate, if it calls it
Compared ==
    IF CurrentType \in DOMAIN relations
    THEN Range(all_descriptions(relations[CurrentType])) \cup {CurrentDescription}
    ELSE {}

OtherWithChildren ==
    {<<Item("Other", Dict(<<Item("childrenEntities", Dict(<<Item("X", Dict(<<>>))>>)),
                           Item("Y", Str)>>))>>,
     <<Item("OtherPlaces", Dict(<<Item("Y", Dict(<<>>)),
                                 Item("childrenEntities", Dict(<<>>))>>))>>,
     <<Item("Other", Str)>>,
     <<Item("D", Dict(<<Item("childrenEntities",
                             Dict(<<Item("Other", Dict(<<Item("X", Str)>>))>>))>>))>>}

CollectTrees ==
    {t \o o : t \in EntityDicts(MaxDepth, MaxCollectEntities),
              o \in OtherChoices \cup OtherWithChildren}

\* the ontology is read and no metric is computed
OntologyOnly(trees) ==
    /\ \E tree \in trees : eval_ontology = [entities |-> tree, relationships |-> NoRelations]
    /\ eval_graph = [nodes |-> <<>>]
    /\ eval_results = NoResults
    /\ eval_pc = "idle"
    /\ eval_outfile = <<>>
    /\ MergeIdle /\ DedupeIdle /\ OntoIdle /\ NameIdle /\ CacheIdle /\ TriplesIdle

CollectInit ==
    /\ OntologyOnly(CollectTrees)
    /\ fn_entity = ""
    /\ fn_result = <<>>
    /\ fn_pc = "called"

\* lines 6-28
GetEntitiesOnto ==
    /\ fn_pc = "called"
    /\ fn_result' = get_entities_onto(eval_ontology.entities)
    /\ fn_pc' = "returned"
    /\ UNCHANGED <<fn_entity, merge_vars, dedupe_vars, onto_vars, name_vars, cache_vars,
                   eval_vars, triples_vars>>

CollectNext == GetEntitiesOnto

SpecCollect == CollectInit /\ [][CollectNext]_vars

FnReturned == fn_pc = "returned"

\* a key of the value of an entity marked "Other", childrenEntities or not
IsInOther(path) ==
    /\ Len(path) >= 2
    /\ IsEntityPath(Front(path))
    /\ contains_Other(Last(Front(path)))
    /\ Last(path) # "childrenEntities"

\* C24 as stated: the list has every key with a nested mapping as its value
\* at the top level and inside every childrenEntities mapping, and every key
\* of the value of a key containing "Other", in addition to what is inside
\* its childrenEntities; the count is the length of the list.
C24_Original ==
    FnReturned =>
        /\ \A path \in PathsOf(Tree) :
              (IsEntityPath(path) \/ IsInOther(path)) => Last(path) \in Range(fn_result.entity_list)
        /\ fn_result.count = Len(fn_result.entity_list)

\* C24: the list has one element for every key with a nested mapping as its
\* value at the top level and inside every childrenEntities mapping, and,
\* for such a key that contains "Other" and whose value has no key
\* childrenEntities, one element for every key of its value, whatever that
\* key's value; it has no other element, and the count is its length.
C24_CollectEntities ==
    FnReturned =>
        /\ Range(fn_result.entity_list) = {Last(path) : path \in CollectedEntities}
        /\ Len(fn_result.entity_list) = Cardinality(CollectedEntities)
        /\ fn_result.count = Len(fn_result.entity_list)

\* the call has listed the members of a bucket and an entity two levels down
C24_Witness ==
    /\ FnReturned
    /\ \E path \in CollectedEntities : IsBucketMember(path) /\ ~ValueAt(Tree, path).isdict
    /\ \E path \in CollectedEntities : IsEntityPath(path) /\ Len(path) = 5
    /\ fn_result.count = Cardinality(CollectedEntities)


(***************************************************************************)
(* _get_nsups called on ontology['entities'] for one name, as at line 306  *)
(* of structural_evaluation.py; the name "Z" is no key of any tree.        *)
(***************************************************************************)
SearchedNames == {"A", "B", "C", "X", "p", "Z"}

PathInit ==
    /\ OntologyOnly(Trees(MaxEntities))
    /\ fn_entity \in SearchedNames
    /\ fn_result = <<>>
    /\ fn_pc = "called"

\* lines 279-301
GetNsups ==
    /\ fn_pc = "called"
    /\ fn_result' = get_nsups(fn_entity, eval_ontology.entities, <<>>)
    /\ fn_pc' = "returned"
    /\ UNCHANGED <<fn_entity, merge_vars, dedupe_vars, onto_vars, name_vars, cache_vars,
                   eval_vars, triples_vars>>

PathNext == GetNsups

SpecPath == PathInit /\ [][PathNext]_vars

\* the places of the tree where the searched name is a key
PlacesOfName == {path \in PathsOf(Tree) : Last(path) = fn_entity}

\* the names of the ancestors of the entity at an entity path, root first:
\* every other key of the path before the last
RECURSIVE AncestorsOf(_)
AncestorsOf(path) ==
    IF Len(path) <= 1 THEN <<>>
    ELSE <<Head(path)>> \o AncestorsOf(Tail(Tail(path)))

\* C25 as stated: for an entity d levels of childrenEntities below the top
\* level the result is the path of its d ancestors, root first (empty at
\* the top level); childrenEntities occurs in no returned path; a name that
\* occurs nowhere in the tree yields not-found.
C25_Original ==
    FnReturned =>
        /\ \A path \in PlacesOfName :
              IsEntityPath(path) =>
                  /\ fn_result.found
                  /\ fn_result.path = AncestorsOf(path)
        /\ "childrenEntities" \notin Range(fn_result.path)
        /\ PlacesOfName = {} => ~fn_result.found

\* C25: for an entity d levels of childrenEntities below the top level whose
\* name is a key at no other place of the tree, the result is the path of
\* its d ancestors, root first (empty at the top level), and so a path of
\* entity names only; childrenEntities occurs in no returned path; a name
\* that occurs nowhere in the tree yields not-found.
C25_PathToRoot ==
    FnReturned =>
        /\ \A path \in PlacesOfName :
              (IsEntityPath(path) /\ PlacesOfName = {path}) =>
                  /\ fn_result.found
                  /\ fn_result.path = AncestorsOf(path)
        /\ "childrenEntities" \notin Range(fn_result.path)
        /\ PlacesOfName = {} => ~fn_result.found

\* the call has returned the two ancestors of an entity two levels down
C25_Witness ==
    /\ FnReturned
    /\ \E path \in PlacesOfName :
          /\ IsEntityPath(path)
          /\ PlacesOfName = {path}
          /\ Len(path) = 5
          /\ fn_result.path = <<path[1], path[3]>>


\* the endpoint is an integer string whose value is that of an integer id
\* of a node of batch k: it has an entry in the mapping of that batch
InBatchMapping(k, endpoint) ==
    /\ isdigit(endpoint)
    /\ \E j \in DOMAIN kg_batches[k].nodes :
          /\ isdigit(kg_batches[k].nodes[j].id)
          /\ int(kg_batches[k].nodes[j].id) = int(endpoint)

\* node j of batch k as it is in the accumulator
NodeAfter(k, j) == new_node_list[NodesBefore(kg_batches, k) + j]

NodeFrame(k, j) ==
    LET old == kg_batches[k].nodes[j]
    IN /\ NodeAfter(k, j).labels = old.labels
       /\ NodeAfter(k, j).properties = old.properties
       /\ (k = 1 \/ ~isdigit(old.id)) => NodeAfter(k, j).id = old.id

RelationFrame(k, r) ==
    LET old == kg_batches[k].relationships[r]
    IN /\ RelAfter(k, r).type = old.type
       /\ DOMAIN RelAfter(k, r) = DOMAIN old
       /\ (k = 1 \/ ~InBatchMapping(k, old.startNode)) => RelAfter(k, r).startNode = old.startNode
       /\ (k = 1 \/ ~InBatchMapping(k, old.endNode)) => RelAfter(k, r).endNode = old.endNode

\* C26: after every batch folded in, the node list and the relationship list
\* are the in-order concatenations of the lists of the batches folded so
\* far, nothing dropped or duplicated; labels, properties and relationship
\* types are those of the batches; batch 0 is unchanged; a node with a
\* non-numeric id keeps its id; an endpoint that is not in the mapping of
\* its batch is unchanged.
C26_MergeFrame ==
    Folded =>
        /\ Len(new_node_list) = NodesBefore(kg_batches, batch_i + 1)
        /\ Len(new_rel_list) = RelsBefore(kg_batches, batch_i + 1)
        /\ \A k \in 1..batch_i :
              /\ \A j \in DOMAIN kg_batches[k].nodes : NodeFrame(k, j)
              /\ \A r \in DOMAIN kg_batches[k].relationships : RelationFrame(k, r)
        /\ Written => /\ merged_file.nodes = new_node_list
                      /\ merged_file.relationships = new_rel_list

\* a later batch has been written with a renumbered node, a node that kept
\* its non-numeric id, and a relationship of which one endpoint was
\* rewritten and the other, not in the mapping, was left as it was
C26_Witness ==
    /\ Written
    /\ \E k \in 2..Len(kg_batches) :
          /\ \E j \in DOMAIN kg_batches[k].nodes :
                ~isdigit(kg_batches[k].nodes[j].id) /\ NodeAfter(k, j) = kg_batches[k].nodes[j]
          /\ \E j \in DOMAIN kg_batches[k].nodes :
                NodeAfter(k, j).id # kg_batches[k].nodes[j].id
          /\ \E r \in DOMAIN kg_batches[k].relationships :
                /\ RelAfter(k, r).startNode # kg_batches[k].relationships[r].startNode
                /\ ~InBatchMapping(k, kg_batches[k].relationships[r].endNode)
                /\ RelAfter(k, r).endNode = kg_batches[k].relationships[r].endNode


\* a decimal string without leading zeros
CanonicalDecimal(s) == isdigit(s) /\ str(int(s)) = s

\* batch 0 has a node with an integer id; in every batch the ids are
\* pairwise distinct canonical decimal strings and every endpoint is the id
\* of a node of the batch
C27_Precondition ==
    /\ has_int_id(kg_batches[1].nodes)
    /\ \A k \in DOMAIN kg_batches :
          /\ PairwiseDistinctIds(kg_batches[k].nodes)
          /\ \A j \in DOMAIN kg_batches[k].nodes : CanonicalDecimal(kg_batches[k].nodes[j].id)
          /\ SelfContained(kg_batches[k])

\* the positions in the accumulator of the nodes the endpoint names
Holders(endpoint) == {p \in DOMAIN new_node_list : new_node_list[p].id = endpoint}

\* the position in the accumulator of the node of batch k that had the id
CopyOf(k, old) ==
    {NodesBefore(kg_batches, k) + j : j \in {j \in DOMAIN kg_batches[k].nodes :
                                                kg_batches[k].nodes[j].id = old}}

\* C27: for batches that satisfy C27_Precondition no batch fails, and after
\* every batch folded in the ids of the accumulator are pairwise distinct
\* and every endpoint names exactly one node of the accumulator, the copy of
\* the node it named in its own batch.
C27_SelfContainedMerge ==
    C27_Precondition =>
        /\ merge_pc # "error"
        /\ Folded =>
              /\ PairwiseDistinctIds(new_node_list)
              /\ \A k \in 1..batch_i : \A r \in DOMAIN kg_batches[k].relationships :
                    /\ Holders(RelAfter(k, r).startNode)
                          = CopyOf(k, kg_batches[k].relationships[r].startNode)
                    /\ Holders(RelAfter(k, r).endNode)
                          = CopyOf(k, kg_batches[k].relationships[r].endNode)
                    /\ Cardinality(Holders(RelAfter(k, r).startNode)) = 1
                    /\ Cardinality(Holders(RelAfter(k, r).endNode)) = 1

\* three batches with nodes "0" and "1" each, the last with a relationship
\* between its two nodes, have been merged
C27_Witness ==
    /\ Written
    /\ C27_Precondition
    /\ Len(kg_batches) = 3
    /\ Len(kg_batches[2].nodes) >= 1
    /\ Len(kg_batches[3].nodes) = 2
    /\ \E r \in DOMAIN kg_batches[3].relationships :
          /\ kg_batches[3].relationships[r].startNode # kg_batches[3].relationships[r].endNode
          /\ RelAfter(3, r).startNode # RelAfter(3, r).endNode
          /\ RelAfter(3, r).startNode \notin NodeIds(kg_batches[3].nodes)


\* the records stored under one type: at least one, no two with the same
\* description, no two with descriptions of similarity above 0.55
WellSeparated(records) ==
    /\ Len(records) >= 1
    /\ \A i \in DOMAIN records, j \in DOMAIN records :
          i # j =>
             /\ records[i].description # records[j].description
             /\ ~CosineAbove(Embedding(records[i].description),
                             Embedding(records[j].description))

Reorderings(nodes) ==
    {[j \in DOMAIN nodes |-> nodes[order[j]]] : order \in Orderings(DOMAIN nodes)}

\* a node as the claim compares it: id, label set, property mapping
NodeView(node) ==
    [id |-> node.id, labels |-> LabelSet(node), properties |-> node.properties]

NodeViews(kg) == {NodeView(kg.nodes[j]) : j \in DOMAIN kg.nodes}

\* the run on every permutation of the node list it read returns, with the
\* set of nodes and the relationships of the file it wrote
OrderIndependent ==
    \A nodes \in Reorderings(kg_prev.nodes), label_order \in Orderings(LabelUniverse) :
        LET kg == [kg_prev EXCEPT !.nodes = nodes]
        IN /\ ~dedupe_raises(kg)
           /\ NodeViews(remove_duplicates_in_kg(kg, label_order)) = NodeViews(kg_file)
           /\ remove_duplicates_in_kg(kg, label_order).relationships = kg_file.relationships

CanonicalIds(nodes) ==
    /\ PairwiseDistinctIds(nodes)
    /\ \A j \in DOMAIN nodes : CanonicalDecimal(nodes[j].id)

StringValued(nodes) ==
    \A j \in DOMAIN nodes : \A key \in DOMAIN nodes[j].properties :
        nodes[j].properties[key] \notin {JsonTrue, JsonOne}

\* C29 as stated: on a graph whose node ids are pairwise distinct canonical
\* integer strings, the run on any permutation of the node list gives the
\* same set of nodes and the same relationships.
C29_Original ==
    (Deduped /\ CanonicalIds(kg_prev.nodes)) => OrderIndependent

\* C29: on a graph whose node ids are pairwise distinct canonical integer
\* strings and whose property values are strings, the run on any permutation
\* of the node list gives the same set of nodes (id, label set, property
\* mapping) and the same relationships.
C29_OrderIndependence ==
    (Deduped /\ CanonicalIds(kg_prev.nodes) /\ StringValued(kg_prev.nodes))
        => OrderIndependent

\* three "Paris" nodes, two of them with population "2M" and one without
\* the key, and a relationship between two of them, have been collapsed
C29_Witness ==
    /\ dedupe_runs = 1
    /\ CanonicalIds(kg_prev.nodes)
    /\ StringValued(kg_prev.nodes)
    /\ Cardinality(Named(kg_prev.nodes, "Paris")) = 3
    /\ Cardinality(Carriers("Paris", "population")) = 2
    /\ \E r \in DOMAIN kg_prev.relationships :
          kg_prev.relationships[r] # kg_file.relationships[r]
    /\ \E j \in Canonical("Paris") : kg_file.nodes[j].properties["population"] = "2M"


\* the nodes the run read that have no name, an empty name, or a name no
\* other node has, in the order of the node list
Unbucketed(node) ==
    NameOf(node) = "" \/ Cardinality(Named(kg_prev.nodes, NameOf(node))) = 1

UnbucketedNodes == SelectSeq(kg_prev.nodes, Unbucketed)

\* part is found in whole, in its order
RECURSIVE IsSubsequence(_, _)
IsSubsequence(part, whole) ==
    IF part = <<>> THEN TRUE
    ELSE IF whole = <<>> THEN FALSE
    ELSE IF Head(part) = Head(whole) THEN IsSubsequence(Tail(part), Tail(whole))
    ELSE IsSubsequence(part, Tail(whole))

CollapsedIds == UNION {BucketIds(v) : v \in Buckets}

\* the relationships are the ones read, in their order and with their
\* types, and an endpoint differs only if it was the id of a bucket member
RelationshipFrame ==
    /\ Len(kg_file.relationships) = Len(kg_prev.relationships)
    /\ \A r \in DOMAIN kg_prev.relationships :
          /\ kg_file.relationships[r].type = kg_prev.relationships[r].type
          /\ DOMAIN kg_file.relationships[r] = DOMAIN kg_prev.relationships[r]
          /\ kg_file.relationships[r].startNode # kg_prev.relationships[r].startNode
                => kg_prev.relationships[r].startNode \in CollapsedIds
          /\ kg_file.relationships[r].endNode # kg_prev.relationships[r].endNode
                => kg_prev.relationships[r].endNode \in CollapsedIds

\* C30 as stated: the run leaves every node without a name and every node
\* that is the only one with its name unchanged and in its relative order,
\* keeps the relationships, their order and types, and changes an endpoint
\* only if it is the id of a member of a bucket of two or more nodes.
C30_Original ==
    Deduped => IsSubsequence(UnbucketedNodes, kg_file.nodes) /\ RelationshipFrame

\* C30: the run keeps the relationships, their order and types, and changes
\* an endpoint only if it is the id of a member of a bucket of two or more
\* nodes; on a graph whose node ids are pairwise distinct it leaves every
\* node without a name and every node that is the only one with its name
\* unchanged and in its relative order.
C30_DedupeFrame ==
    Deduped =>
        /\ RelationshipFrame
        /\ PairwiseDistinctIds(kg_prev.nodes) =>
              IsSubsequence(UnbucketedNodes, kg_file.nodes)

\* two "Paris" nodes were collapsed; the only "Rome" node, read after them,
\* is now the first node, and its relationship to the second "Paris" node
\* ends at the canonical one
C30_Witness ==
    /\ dedupe_runs = 1
    /\ PairwiseDistinctIds(kg_prev.nodes)
    /\ Len(kg_prev.nodes) = 3
    /\ Named(kg_prev.nodes, "Paris") = {1, 2}
    /\ Named(kg_prev.nodes, "Rome") = {3}
    /\ kg_file.nodes[1] = kg_prev.nodes[3]
    /\ \E r \in DOMAIN kg_prev.relationships :
          /\ kg_prev.relationships[r].startNode = kg_prev.nodes[3].id
          /\ kg_file.relationships[r].startNode = kg_prev.nodes[3].id
          /\ kg_prev.relationships[r].endNode = <<"1">>
          /\ kg_file.relationships[r].endNode = <<"0">>

====
